---- MODULE Spec2Model ----
(***************************************************************************)
(* TaskFly deployment control plane: the state store, the orchestrator's   *)
(* background tasks and the node-facing HTTP handlers, as a state machine. *)
(*                                                                         *)
(* Every store method runs under the store mutex, so one store call is one *)
(* atomic step.  A handler or a background task is a sequence of such      *)
(* steps, and the steps of different handlers and tasks interleave freely. *)
(* Wall-clock stamps (created_at, updated_at, last_update) are left out;   *)
(* completed_at is kept as set / not set.                                  *)
(***************************************************************************)
EXTENDS Integers, Sequences, FiniteSets, TLC

\* Largest nodes.count a submitted descriptor asks for.
NumNodes == 2

\* Deployment ids generateID("dep") can return, and the providers a descriptor names.
DepIds == {"dep_1"}
Providers == {"local", "aws", "gcp"}

NodeIdx == 0..(NumNodes - 1)

\* metadata.GenerateNodeConfigs: node_id is "<deployment_id>_node_<index>".
NodeID(d, i) == <<d, "node", i>>

\* orchestrator.generateID("pt"): a fresh provision token per node.
ProvisionTokenOf(nid) == <<"pt", nid>>

\* An auth token that is the same string for every node.
AuthTokenOf_Constant(nid) == <<"auth", "node">>

\* registerNode: authToken := "auth-" + foundNode.NodeID
AuthTokenOf(nid) == <<"auth", nid>>

NoToken == <<>>

\* The empty node id (no node filter) and the zero time (no since).
NoNode == <<>>
ZeroTime == 0

\* Store.maxLogsPerDeployment (10000 in NewStore), the limit getDeploymentLogs starts
\* from (1000), and the timestamps entries carry.
maxLogsPerDeployment == 2
defaultLimit == 1
MaxTime == 2
Timestamps == 1..MaxTime

\* An Authorization header: the text before the token and the token. The header that
\* was not sent reads as the empty string.
NoHeader == [scheme |-> "", token |-> NoToken]


\* state.DeploymentStatus
StatusPending == "pending"
StatusProvisioning == "provisioning"
StatusRunning == "running"
StatusCompleted == "completed"
StatusFailed == "failed"
StatusTerminating == "terminating"
StatusTerminated == "terminated"

\* state.NodeStatus
NodeStatusPending == "pending"
NodeStatusProvisioning == "provisioning"
NodeStatusBooting == "booting"
NodeStatusRegistering == "registering"
NodeStatusDownloading == "downloading_assets"
NodeStatusRunning == "running"
NodeStatusCompleted == "completed"
NodeStatusFailed == "failed"
NodeStatusTerminating == "terminating"
NodeStatusTerminated == "terminated"

TerminalDeploymentStatuses == {StatusCompleted, StatusFailed, StatusTerminated}
TerminalNodeStatuses == {NodeStatusCompleted, NodeStatusFailed, NodeStatusTerminated}

\* The values the NodeStatus constants declare.
NodeStatuses ==
    {NodeStatusPending, NodeStatusProvisioning, NodeStatusBooting, NodeStatusRegistering,
     NodeStatusDownloading, NodeStatusRunning, NodeStatusCompleted, NodeStatusFailed,
     NodeStatusTerminating, NodeStatusTerminated}

\* error_message values: none, a backend (provider) error, a message sent by the agent.
NoMessage == ""
BackendError == "backend error"
ProviderError == "unsupported cloud provider"

VARIABLES
    deployments,   \* Store.deployments: deployment id -> Deployment
    nodes,         \* Store.nodes: node id -> Node
    nodesByDep,    \* Store.nodesByDep: deployment id -> sequence of node ids
    submit,        \* ProcessDeployment: position, generated id, descriptor
    execPc,        \* executeDeployment / provisionNodes goroutine
    prov,          \* provisionSingleNode goroutine of each node index
    agent,         \* Agent.Run foreground of each node's agent
    hb,            \* Agent.heartbeatLoop and the nodeHeartbeat handler serving it
    term,          \* deleteDeployment handler running TerminateDeployment
    dup,           \* a registerNode handler serving a repeated registration request
    cleanup,       \* a cleanup request or sweep: position, deployment it is deleting
    req,           \* the last node request that named no registered node, and its answer
    deploymentDirs, \* the deployment working directories on disk (workingDir/<id>)
    logs,          \* Store.logs: deployment id -> sequence of LogEntry
    appended,      \* history: deployment id -> every entry AppendLogs accepted, in order
    query,         \* the last GET /deployments/:id/logs: parameters and answer
    gen,           \* metadata.GenerateNodeConfigs: the NodesConfig and what two calls returned
    disk,          \* state.json in the DiskStore's data directory
    pool           \* cloud.ResourcePool: instances, its goroutines, the last call's result

store == <<deployments, nodes, nodesByDep>>
logVars == <<logs, appended, query>>
vars == <<deployments, nodes, nodesByDep, submit, execPc, prov, agent, hb, term, dup,
          cleanup, req, deploymentDirs, logs, appended, query, gen, disk, pool>>

----------------------------------------------------------------------------
(* The state store (internal/state/store.go).                              *)

\* Number of the listed nodes whose status is s (the switch in checkDeploymentCompletion).
CountStatus(nds, ids, s) ==
    Cardinality({k \in 1..Len(ids) : nds[ids[k]].status = s})

\* checkDeploymentCompletion with the counters added to instead of assigned.
checkDeploymentCompletion_Accumulate(deps, nds, byDep, d) ==
    IF d \notin DOMAIN deps THEN deps
    ELSE
      LET ids       == IF d \in DOMAIN byDep THEN byDep[d] ELSE <<>>
          completed == CountStatus(nds, ids, NodeStatusCompleted)
          failed    == CountStatus(nds, ids, NodeStatusFailed)
          counted   == [deps[d] EXCEPT !.nodes_completed = @ + completed,
                                       !.nodes_failed = @ + failed]
          updated   ==
            IF completed + failed = counted.total_nodes
            THEN [counted EXCEPT !.status = IF failed > 0 THEN StatusFailed
                                                          ELSE StatusCompleted,
                                 !.completed_at = TRUE]
            ELSE IF counted.status = StatusProvisioning
                 THEN [counted EXCEPT !.status = StatusRunning]
                 ELSE counted
      IN [deps EXCEPT ![d] = updated]

\* checkDeploymentCompletion without the completed_at stamp.
checkDeploymentCompletion_NoStamp(deps, nds, byDep, d) ==
    IF d \notin DOMAIN deps THEN deps
    ELSE
      LET ids       == IF d \in DOMAIN byDep THEN byDep[d] ELSE <<>>
          completed == CountStatus(nds, ids, NodeStatusCompleted)
          failed    == CountStatus(nds, ids, NodeStatusFailed)
          counted   == [deps[d] EXCEPT !.nodes_completed = completed,
                                       !.nodes_failed = failed]
          updated   ==
            IF completed + failed = counted.total_nodes
            THEN [counted EXCEPT !.status = IF failed > 0 THEN StatusFailed
                                                          ELSE StatusCompleted]
            ELSE IF counted.status = StatusProvisioning
                 THEN [counted EXCEPT !.status = StatusRunning]
                 ELSE counted
      IN [deps EXCEPT ![d] = updated]

\* Store.checkDeploymentCompletion, on the maps it is handed; yields the new deployments map.
checkDeploymentCompletion(deps, nds, byDep, d) ==
    IF d \notin DOMAIN deps THEN deps
    ELSE
      LET ids       == IF d \in DOMAIN byDep THEN byDep[d] ELSE <<>>
          completed == CountStatus(nds, ids, NodeStatusCompleted)
          failed    == CountStatus(nds, ids, NodeStatusFailed)
          running   == CountStatus(nds, ids, NodeStatusRunning)
          other     == Len(ids) - completed - failed - running
          counted   == [deps[d] EXCEPT !.nodes_completed = completed,
                                       !.nodes_failed = failed]
          updated   ==
            IF completed + failed = counted.total_nodes
            THEN [counted EXCEPT !.status = IF failed > 0 THEN StatusFailed
                                                          ELSE StatusCompleted,
                                 !.completed_at = TRUE]
            ELSE IF (running > 0 \/ other > 0) /\ counted.status = StatusProvisioning
                 THEN [counted EXCEPT !.status = StatusRunning]
                 ELSE counted
      IN [deps EXCEPT ![d] = updated]

\* Store.CreateDeployment
CreateDeploymentFails(d) == d \in DOMAIN deployments

CreateDeployment(d, dep) ==
    IF CreateDeploymentFails(d)
    THEN UNCHANGED store
    ELSE /\ deployments' = [x \in DOMAIN deployments \cup {d} |->
                               IF x = d THEN dep ELSE deployments[x]]
         /\ nodesByDep' = [x \in DOMAIN nodesByDep \cup {d} |->
                               IF x = d THEN <<>> ELSE nodesByDep[x]]
         /\ UNCHANGED nodes

\* Store.CreateNode
CreateNodeFails(nid) == nid \in DOMAIN nodes

CreateNode(nid, node) ==
    IF CreateNodeFails(nid)
    THEN UNCHANGED store
    ELSE LET d == node.deployment_id
         IN /\ nodes' = [x \in DOMAIN nodes \cup {nid} |->
                            IF x = nid THEN node ELSE nodes[x]]
            /\ nodesByDep' = [x \in DOMAIN nodesByDep \cup {d} |->
                                 IF x \in DOMAIN nodesByDep
                                 THEN (IF x = d THEN Append(nodesByDep[x], nid)
                                                ELSE nodesByDep[x])
                                 ELSE <<nid>>]
            /\ UNCHANGED deployments

\* Store.UpdateDeploymentStatus; errorMessage is the variadic argument (<<>> or <<msg>>).
UpdateDeploymentStatusFails(d) == d \notin DOMAIN deployments

UpdateDeploymentStatus(d, status, errorMessage) ==
    IF UpdateDeploymentStatusFails(d)
    THEN UNCHANGED store
    ELSE /\ deployments' =
              [deployments EXCEPT ![d] =
                  [@ EXCEPT !.status = status,
                            !.error_message = IF Len(errorMessage) > 0
                                              THEN errorMessage[1] ELSE @,
                            !.completed_at = IF status \in TerminalDeploymentStatuses
                                             THEN TRUE ELSE @]]
         /\ UNCHANGED <<nodes, nodesByDep>>

\* The lookup and ownership check every node mutator starts with.
NodeUpdateFails(d, nid) ==
    \/ nid \notin DOMAIN nodes
    \/ nodes[nid].deployment_id # d

\* The assignments of Store.UpdateNodeStatus to the node, on the map it is handed.
NodeWithStatus(nds, nid, status, errorMessage) ==
    [nds EXCEPT ![nid] =
        [@ EXCEPT !.status = status,
                  !.error_message = IF Len(errorMessage) > 0
                                    THEN errorMessage[1] ELSE @]]

\* Store.UpdateNodeStatus
UpdateNodeStatus(d, nid, status, errorMessage) ==
    IF NodeUpdateFails(d, nid)
    THEN UNCHANGED store
    ELSE LET nds == NodeWithStatus(nodes, nid, status, errorMessage)
         IN /\ nodes' = nds
            /\ deployments' = checkDeploymentCompletion(deployments, nds, nodesByDep, d)
            /\ UNCHANGED nodesByDep

\* UpdateNodeAuthToken that finds the node and stores nothing.
UpdateNodeAuthToken_NoStore(d, nid, authToken) ==
    UNCHANGED store

\* Store.UpdateNodeAuthToken
UpdateNodeAuthToken(d, nid, authToken) ==
    IF NodeUpdateFails(d, nid)
    THEN UNCHANGED store
    ELSE /\ nodes' = [nodes EXCEPT ![nid].auth_token = authToken]
         /\ UNCHANGED <<deployments, nodesByDep>>

\* Store.UpdateNodeMessage, on the map it is handed (the node is there).
UpdateNodeMessage(nds, nid, message) ==
    [nds EXCEPT ![nid].error_message = message]

\* Store.UpdateNodeInstanceInfo, on the map it is handed (the node is there).
UpdateNodeInstanceInfo(nds, nid, instanceID) ==
    [nds EXCEPT ![nid].instance_id = instanceID]

\* Store.UpdateNodeMetrics
UpdateNodeMetrics(d, nid, metrics) ==
    IF NodeUpdateFails(d, nid)
    THEN UNCHANGED store
    ELSE /\ nodes' = [nodes EXCEPT ![nid].metrics = metrics]
         /\ UNCHANGED <<deployments, nodesByDep>>

\* Store.DeleteDeployment: the nodes on the deployment's list, the list, the record.
DeleteDeployment(d) ==
    IF d \notin DOMAIN deployments
    THEN UNCHANGED store
    ELSE LET listed == IF d \in DOMAIN nodesByDep
                       THEN {nodesByDep[d][k] : k \in 1..Len(nodesByDep[d])}
                       ELSE {}
         IN /\ nodes' = [x \in DOMAIN nodes \ listed |-> nodes[x]]
            /\ nodesByDep' = [x \in DOMAIN nodesByDep \ {d} |-> nodesByDep[x]]
            /\ deployments' = [x \in DOMAIN deployments \ {d} |-> deployments[x]]

\* existingLogs[len(existingLogs)-n:] when the slice is longer than n, else all of it.
LastN(seq, n) ==
    IF Len(seq) > n THEN SubSeq(seq, Len(seq) - n + 1, Len(seq)) ELSE seq

\* The buffer of a deployment (a missing map entry reads as the nil slice).
LogsOf(d) == IF d \in DOMAIN logs THEN logs[d] ELSE <<>>

\* The history of a deployment.
AppendedTo(d) == IF d \in DOMAIN appended THEN appended[d] ELSE <<>>

AppendLogsFails(d) == d \notin DOMAIN deployments

\* AppendLogs that trims by keeping the oldest entries.
AppendLogs_KeepOldest(d, batch) ==
    IF AppendLogsFails(d)
    THEN UNCHANGED <<logs, appended>>
    ELSE LET existingLogs == LogsOf(d) \o batch
         IN /\ logs' = [x \in DOMAIN logs \cup {d} |->
                          IF x = d
                          THEN IF Len(existingLogs) > maxLogsPerDeployment
                               THEN SubSeq(existingLogs, 1, maxLogsPerDeployment)
                               ELSE existingLogs
                          ELSE logs[x]]
            /\ appended' = [x \in DOMAIN appended \cup {d} |->
                              IF x = d THEN AppendedTo(d) \o batch ELSE appended[x]]

\* Store.AppendLogs: the deployment must exist; append, then keep the last
\* maxLogsPerDeployment entries.
AppendLogs(d, batch) ==
    IF AppendLogsFails(d)
    THEN UNCHANGED <<logs, appended>>
    ELSE LET existingLogs == LogsOf(d) \o batch
         IN /\ logs' = [x \in DOMAIN logs \cup {d} |->
                          IF x = d
                          THEN LastN(existingLogs, maxLogsPerDeployment)
                          ELSE logs[x]]
            /\ appended' = [x \in DOMAIN appended \cup {d} |->
                              IF x = d THEN AppendedTo(d) \o batch ELSE appended[x]]

\* The test of GetLogs' filter loop: the node filter if nodeID is set, the time
\* filter if since is not the zero time.
LogMatches(e, nodeID, since) ==
    /\ ~(nodeID # NoNode /\ e.node_id # nodeID)
    /\ ~(since # ZeroTime /\ e.timestamp < since)

\* GetLogs that cuts to the oldest limit entries.
GetLogs_Oldest(d, nodeID, since, limit) ==
    LET filtered == SelectSeq(LogsOf(d), LAMBDA e : LogMatches(e, nodeID, since))
    IN IF limit > 0 /\ Len(filtered) > limit
       THEN SubSeq(filtered, 1, limit)
       ELSE filtered

\* Store.GetLogs on an existing deployment: filter, then the last limit entries if
\* limit > 0.
GetLogs(d, nodeID, since, limit) ==
    LET filtered == SelectSeq(LogsOf(d), LAMBDA e : LogMatches(e, nodeID, since))
    IN IF limit > 0 /\ Len(filtered) > limit
       THEN SubSeq(filtered, Len(filtered) - limit + 1, Len(filtered))
       ELSE filtered

\* Store.FindNodeByAuthToken: the node ids whose stored auth_token is the bearer.
FindNodeByAuthToken(authToken) ==
    {nid \in DOMAIN nodes :
        /\ nodes[nid].auth_token = authToken
        /\ nodes[nid].deployment_id \in DOMAIN deployments
        /\ \E k \in 1..Len(nodesByDep[nodes[nid].deployment_id]) :
              nodesByDep[nodes[nid].deployment_id][k] = nid}

\* registerNode's scan: the node ids whose provision_token is the presented one.
FindNodeByProvisionToken(token) ==
    {nid \in DOMAIN nodes :
        /\ nodes[nid].provision_token = token
        /\ nodes[nid].deployment_id \in DOMAIN deployments}

----------------------------------------------------------------------------
(* Initial state: an empty store (NewStore), nothing submitted.            *)

\* PoolConfig of the pool followed.
MaxInstances == 2
MinInstances == 0
provisionAhead == 1

\* Provider.ProvisionInstance calls followed; instance ids are 1, 2, ... in the order
\* the provider hands them out (a provider names every instance differently).
MaxProvisions == 3
NoInstance == 0
InstanceTypes == {"t2.micro", "t2.small"}

\* No pool call was made yet.
NoCall == [op |-> "none", id |-> NoInstance, err |-> "", provisioned |-> FALSE]

\* NewResourcePool: no instances.  held is the history of the instances an Acquire
\* returned that were not released or terminated since.
NewResourcePool ==
    [instances |-> <<>>, next |-> 1, ahead |-> <<>>, cleanups |-> {},
     held |-> {}, last |-> NoCall]

\* The data directory holds no state.json.
NoStateFile ==
    [exists |-> FALSE, deployments |-> <<>>, nodes |-> <<>>, torn |-> FALSE,
     tmp |-> "none", ret |-> "none", stopped |-> FALSE, faults |-> 0]

DaemonInit ==
    /\ deployments = <<>>
    /\ nodes = <<>>
    /\ nodesByDep = <<>>
    /\ submit = [pc |-> "idle", dep |-> "", provider |-> "", count |-> 0, i |-> 0,
                 descriptor |-> ""]
    /\ execPc = "off"
    /\ prov = [i \in NodeIdx |-> "off"]
    /\ agent = [i \in NodeIdx |-> [pc |-> "off", sub |-> "send", outcome |-> ""]]
    /\ hb = [i \in NodeIdx |-> [pc |-> "off", status |-> "", shutdown |-> FALSE]]
    /\ term = [pc |-> "idle", dep |-> "", i |-> 0, nodes |-> <<>>, files |-> "none"]
    /\ dup = [pc |-> "idle", node |-> <<>>, resp |-> "none"]
    /\ cleanup = [pc |-> "idle", dep |-> ""]
    /\ req = [endpoint |-> "none", header |-> NoHeader, body_ok |-> TRUE, code |-> 0]
    /\ deploymentDirs = {}
    /\ logs = <<>>
    /\ appended = <<>>
    /\ query = [dep |-> "", node |-> <<>>, since |-> 0, limit |-> 0, code |-> 0,
                logs |-> <<>>]
    /\ disk = NoStateFile
    /\ pool = NewResourcePool

\* No NodesConfig is being materialised.
NoNodesConfig ==
    [count |-> 0, global_metadata |-> <<>>, distributed_lists |-> <<>>,
     config_template |-> <<>>]

Init ==
    /\ DaemonInit
    /\ gen = [pc |-> "off", cfg |-> NoNodesConfig, call |-> 0, i |-> 0, configs |-> <<>>,
              first |-> <<>>, second |-> <<>>]

\* The deployment of the submission and its node ids.
Dep == submit.dep
Nid(i) == NodeID(Dep, i)

----------------------------------------------------------------------------
(* Orchestrator.ProcessDeployment (internal/orchestrator/engine.go).       *)

\* The state.Deployment record ProcessDeployment builds.
NewDeployment(provider, count) ==
    [status |-> StatusPending, cloud_provider |-> provider, total_nodes |-> count,
     nodes_completed |-> 0, nodes_failed |-> 0, completed_at |-> FALSE,
     error_message |-> NoMessage]

\* generateID("pt") formats four bytes of crypto/rand and compares them with nothing:
\* any value may come out, one drawn before included.  Tokens are only ever compared
\* for equality, so as many values as there are nodes give every pattern of equal
\* and distinct draws.
ProvisionTokens == {ProvisionTokenOf(NodeID(d, i)) : d \in DepIds, i \in NodeIdx}

\* The state.Node record ProcessDeployment builds for node index i, with the
\* provision token it drew.
NewNode(d, i, token) ==
    [deployment_id |-> d, node_index |-> i, status |-> NodeStatusPending,
     provision_token |-> token, auth_token |-> NoToken,
     should_shutdown |-> FALSE, error_message |-> NoMessage,
     instance_id |-> "", metrics |-> "none"]

\* What the uploaded bundle holds: a taskfly.yml that parses, with distributed lists of
\* simple elements or with a list that has an element of another type; a taskfly.yml
\* that does not parse; no taskfly.yml.
Descriptors == {"ok", "complex_list", "unparsable", "missing"}

\* extractAndParseConfig returns an error.
extractAndParseConfigFails(descriptor) == descriptor \in {"unparsable", "missing"}

\* metadata.ValidateNodesConfig returns an error (no distributed list is empty in
\* the descriptors followed here).
ValidateNodesConfigFails(count) == count <= 0

\* generateID, os.MkdirAll of the working directory, extractAndParseConfig,
\* ValidateNodesConfig and CreateDeployment; each error is returned as it is.
ProcessDeploymentCreate(d, provider, count, descriptor) ==
    /\ submit.pc = "idle"
    /\ deploymentDirs' = deploymentDirs \cup {d}
    /\ IF \/ extractAndParseConfigFails(descriptor)
          \/ ValidateNodesConfigFails(count)
          \/ CreateDeploymentFails(d)
       THEN /\ submit' = [submit EXCEPT !.pc = "rejected", !.dep = d,
                                        !.descriptor = descriptor]
            /\ UNCHANGED store
       ELSE /\ submit' = [pc |-> "nodes", dep |-> d, provider |-> provider,
                          count |-> count, i |-> 0, descriptor |-> descriptor]
            /\ CreateDeployment(d, NewDeployment(provider, count))
    /\ UNCHANGED <<execPc, prov, agent, hb, term, dup, cleanup, req, logVars, gen, disk, pool>>

\* metadata.GenerateNodeConfigs meets the element that is no simple type:
\* UpdateDeploymentStatus(failed, err) and the error is returned.
ProcessDeploymentGenerateFails ==
    /\ submit.pc = "nodes"
    /\ submit.descriptor = "complex_list"
    /\ UpdateDeploymentStatus(Dep, StatusFailed, <<"complex type">>)
    /\ submit' = [submit EXCEPT !.pc = "rejected"]
    /\ UNCHANGED <<execPc, prov, agent, hb, term, dup, cleanup, req, deploymentDirs, logVars, gen, disk, pool>>

\* One round of the loop over nodeConfigs: generateID("pt") yields token, CreateNode
\* for the next index.
ProcessDeploymentCreateNode(token) ==
    /\ submit.pc = "nodes"
    /\ submit.descriptor = "ok"
    /\ submit.i < submit.count
    /\ LET i == submit.i
       IN IF CreateNodeFails(Nid(i))
          THEN /\ UpdateDeploymentStatus(Dep, StatusFailed, <<"node exists">>)
               /\ submit' = [submit EXCEPT !.pc = "rejected"]
          ELSE /\ CreateNode(Nid(i), NewNode(Dep, i, token))
               /\ submit' = [submit EXCEPT !.i = @ + 1]
    /\ UNCHANGED <<execPc, prov, agent, hb, term, dup, cleanup, req, deploymentDirs, logVars, gen, disk, pool>>

\* The draw of generateID("pt") for the next node when no two draws coincide (with
\* 2^32 values, all but certain for the deployments the scenarios below follow).
FreshProvisionToken == ProvisionTokenOf(Nid(submit.i))

\* All nodes are recorded: go o.executeDeployment(deploymentID, config).
ProcessDeploymentSpawn ==
    /\ submit.pc = "nodes"
    /\ submit.descriptor = "ok"
    /\ submit.i = submit.count
    /\ submit' = [submit EXCEPT !.pc = "done"]
    /\ execPc' = "start"
    /\ UNCHANGED <<store, prov, agent, hb, term, dup, cleanup, req, deploymentDirs, logVars, gen, disk, pool>>

----------------------------------------------------------------------------
(* Orchestrator.executeDeployment and provisionNodes.                      *)

\* executeDeployment: UpdateDeploymentStatus(provisioning); return on error.
ExecuteDeploymentStart ==
    /\ execPc = "start"
    /\ UpdateDeploymentStatus(Dep, StatusProvisioning, <<>>)
    /\ execPc' = IF UpdateDeploymentStatusFails(Dep) THEN "done" ELSE "provision"
    /\ UNCHANGED <<submit, prov, agent, hb, term, dup, cleanup, req, deploymentDirs, logVars, gen, disk, pool>>

\* Orchestrator.createProvider: only "local" and "aws" resolve.
createProviderFails(providerName) == providerName \notin {"local", "aws"}

\* provisionNodes that records the createProvider error and carries on to its last
\* statement instead of returning.
ProvisionNodesSpawn_NoReturn ==
    /\ execPc = "provision"
    /\ IF Dep \notin DOMAIN nodesByDep
       THEN /\ UpdateDeploymentStatus(Dep, StatusFailed, <<"not found">>)
            /\ execPc' = "done"
            /\ UNCHANGED prov
       ELSE IF createProviderFails(submit.provider)
       THEN /\ UpdateDeploymentStatus(Dep, StatusFailed, <<ProviderError>>)
            /\ execPc' = "running"
            /\ UNCHANGED prov
       ELSE /\ prov' = [i \in NodeIdx |->
                          IF i < Len(nodesByDep[Dep]) THEN "start" ELSE prov[i]]
            /\ execPc' = "running"
            /\ UNCHANGED store
    /\ UNCHANGED <<submit, agent, hb, term, dup, cleanup, req, deploymentDirs, logVars, gen, disk, pool>>

\* GetNodesByDeployment, createProvider, and one goroutine per node.
ProvisionNodesSpawn ==
    /\ execPc = "provision"
    /\ IF Dep \notin DOMAIN nodesByDep
       THEN /\ UpdateDeploymentStatus(Dep, StatusFailed, <<"not found">>)
            /\ execPc' = "done"
            /\ UNCHANGED prov
       ELSE IF createProviderFails(submit.provider)
       THEN /\ UpdateDeploymentStatus(Dep, StatusFailed, <<ProviderError>>)
            /\ execPc' = "done"
            /\ UNCHANGED prov
       ELSE /\ prov' = [i \in NodeIdx |->
                          IF i < Len(nodesByDep[Dep]) THEN "start" ELSE prov[i]]
            /\ execPc' = "running"
            /\ UNCHANGED store
    /\ UNCHANGED <<submit, agent, hb, term, dup, cleanup, req, deploymentDirs, logVars, gen, disk, pool>>

\* provisionNodes, after the loop: UpdateDeploymentStatus(running).
ProvisionNodesSetRunning ==
    /\ execPc = "running"
    /\ UpdateDeploymentStatus(Dep, StatusRunning, <<>>)
    /\ execPc' = "done"
    /\ UNCHANGED <<submit, prov, agent, hb, term, dup, cleanup, req, deploymentDirs, logVars, gen, disk, pool>>

----------------------------------------------------------------------------
(* Orchestrator.provisionSingleNode, one goroutine per node.               *)

\* UpdateNodeStatus(provisioning)
ProvisionSingleNodeStart(i) ==
    /\ prov[i] = "start"
    /\ UpdateNodeStatus(Dep, Nid(i), NodeStatusProvisioning, <<>>)
    /\ prov' = [prov EXCEPT ![i] = "call"]
    /\ UNCHANGED <<submit, execPc, agent, hb, term, dup, cleanup, req, deploymentDirs, logVars, gen, disk, pool>>

\* A failure that cancels the provisioning of every node of the deployment.
ProvisionInstanceFails_CancelsPeers(i) ==
    /\ prov[i] = "call"
    /\ UpdateNodeStatus(Dep, Nid(i), NodeStatusFailed, <<BackendError>>)
    /\ prov' = [j \in NodeIdx |-> IF prov[j] = "off" THEN "off" ELSE "done"]
    /\ UNCHANGED <<submit, execPc, agent, hb, term, dup, cleanup, req, deploymentDirs, logVars, gen, disk, pool>>

\* provider.ProvisionInstance returns an error: UpdateNodeStatus(failed, err).
ProvisionInstanceFails(i) ==
    /\ prov[i] = "call"
    /\ UpdateNodeStatus(Dep, Nid(i), NodeStatusFailed, <<BackendError>>)
    /\ prov' = [prov EXCEPT ![i] = "done"]
    /\ UNCHANGED <<submit, execPc, agent, hb, term, dup, cleanup, req, deploymentDirs, logVars, gen, disk, pool>>

\* provider.ProvisionInstance succeeds: the bootstrap has started the agent on the
\* host with the node's provision token before the call returns.
ProvisionInstanceSucceeds(i) ==
    /\ prov[i] = "call"
    /\ prov' = [prov EXCEPT ![i] = "info"]
    /\ agent' = [agent EXCEPT ![i].pc = "register"]
    /\ UNCHANGED <<store, submit, execPc, hb, term, dup, cleanup, req, deploymentDirs, logVars, gen, disk, pool>>

\* UpdateNodeInstanceInfo(instanceID, ipAddress), then UpdateNodeStatus(booting).
\* Nothing else reads or writes the instance fields, so the two calls are one step.
ProvisionSingleNodeBooting(i) ==
    /\ prov[i] = "info"
    /\ IF NodeUpdateFails(Dep, Nid(i))
       THEN UNCHANGED store
       ELSE LET info == UpdateNodeInstanceInfo(nodes, Nid(i), "instance")
                nds  == NodeWithStatus(info, Nid(i), NodeStatusBooting, <<>>)
            IN /\ nodes' = nds
               /\ deployments' = checkDeploymentCompletion(deployments, nds, nodesByDep, Dep)
               /\ UNCHANGED nodesByDep
    /\ prov' = [prov EXCEPT ![i] = IF submit.provider = "local" THEN "registering"
                                                                  ELSE "done"]
    /\ UNCHANGED <<submit, execPc, agent, hb, term, dup, cleanup, req, deploymentDirs, logVars, gen, disk, pool>>

\* config.CloudProvider == "local": UpdateNodeStatus(registering)
ProvisionSingleNodeRegistering(i) ==
    /\ prov[i] = "registering"
    /\ UpdateNodeStatus(Dep, Nid(i), NodeStatusRegistering, <<>>)
    /\ prov' = [prov EXCEPT ![i] = "done"]
    /\ UNCHANGED <<submit, execPc, agent, hb, term, dup, cleanup, req, deploymentDirs, logVars, gen, disk, pool>>

----------------------------------------------------------------------------
(* The agent's foreground, Agent.Run, and the handlers that serve it       *)
(* (registerNode, updateNodeStatus, getNodeAssets).  agent[i].pc names the *)
(* request the agent is in; sub = "msg" is the second store call of the    *)
(* registration handler.                                                   *)

AgentMessage == "agent message"

AgentAt(i, pc, sub) == agent[i].pc = pc /\ agent[i].sub = sub

\* registerNode: the scan for the provision token, then UpdateNodeAuthToken.
\* No node carries the token: 401, and Agent.Run returns the registration error.
RegisterNodeAuth(i) ==
    /\ AgentAt(i, "register", "send")
    /\ LET found == FindNodeByProvisionToken(ProvisionTokenOf(Nid(i)))
       IN IF found = {}
          THEN /\ agent' = [agent EXCEPT ![i].pc = "exited"]
               /\ UNCHANGED store
          ELSE /\ \E nid \in found :
                     UpdateNodeAuthToken(nodes[nid].deployment_id, nid, AuthTokenOf(nid))
               /\ agent' = [agent EXCEPT ![i].sub = "msg"]
    /\ UNCHANGED <<submit, execPc, prov, hb, term, dup, cleanup, req, deploymentDirs, logVars, gen, disk, pool>>

\* registerNode: UpdateNodeStatus(registering), 200 with the auth token; the agent
\* then starts heartbeatLoop and goes on to report downloading_assets.
RegisterNodeStatus(i) ==
    /\ AgentAt(i, "register", "msg")
    /\ UpdateNodeStatus(Dep, Nid(i), NodeStatusRegistering, <<>>)
    /\ agent' = [agent EXCEPT ![i].pc = "downloading", ![i].sub = "send"]
    /\ hb' = [hb EXCEPT ![i].pc = "idle"]
    /\ UNCHANGED <<submit, execPc, prov, term, dup, cleanup, req, deploymentDirs, logVars, gen, disk, pool>>

\* The status each reporting position of Agent.Run posts.
AgentStatus(i) ==
    CASE agent[i].pc = "downloading" -> NodeStatusDownloading
      [] agent[i].pc = "extracting"  -> "extracting"
      [] agent[i].pc = "running"     -> NodeStatusRunning
      [] agent[i].pc = "final"       -> agent[i].outcome
      [] OTHER                       -> ""

\* Where Agent.Run goes after a status report has been answered.
AgentAfterReport(i) ==
    CASE agent[i].pc = "downloading" -> {"assets"}
      [] agent[i].pc = "extracting"  -> {"running", "nosetup", "failing"}
      [] agent[i].pc = "running"     -> {"exec"}
      [] agent[i].pc = "final"       ->
            {IF agent[i].outcome = NodeStatusCompleted THEN "wait" ELSE "exited"}
      [] OTHER                       -> {}

\* updateNodeStatus handler: FindNodeByAuthToken, UpdateNodeStatus(req.Status), and,
\* req.Message being set, UpdateNodeMessage; 200.  Only the agent's own reports write
\* the message once the agent runs, so the two calls are one step.  An unknown bearer
\* is answered 401 and the agent carries on.  After "extracting" the bundle unpacks
\* (or fails to), and setup.sh is there (report running) or not (report completed).
UpdateNodeStatusHandler(i) ==
    /\ agent[i].pc \in {"downloading", "extracting", "running", "final"}
    /\ agent[i].sub = "send"
    /\ LET found == FindNodeByAuthToken(AuthTokenOf(Nid(i)))
       IN IF found = {}
          THEN UNCHANGED store
          ELSE \E nid \in found :
                  LET d   == nodes[nid].deployment_id
                      nds == NodeWithStatus(nodes, nid, AgentStatus(i), <<>>)
                  IN /\ nodes' = UpdateNodeMessage(nds, nid, AgentMessage)
                     /\ deployments' = checkDeploymentCompletion(deployments, nds,
                                                                 nodesByDep, d)
                     /\ UNCHANGED nodesByDep
    /\ \E next \in AgentAfterReport(i) :
          agent' = [agent EXCEPT ![i] =
                       CASE next = "nosetup" ->
                               [pc |-> "final", sub |-> "send", outcome |-> NodeStatusCompleted]
                         [] next = "failing" ->
                               [pc |-> "final", sub |-> "send", outcome |-> NodeStatusFailed]
                         [] OTHER -> [pc |-> next, sub |-> "send", outcome |-> @.outcome]]
    /\ UNCHANGED <<submit, execPc, prov, hb, term, dup, cleanup, req, deploymentDirs, logVars, gen, disk, pool>>

\* getNodeAssets: FindNodeByAuthToken, UpdateNodeStatus(downloading_assets), the
\* bundle is served; the agent reports extracting next.
GetNodeAssets(i) ==
    /\ AgentAt(i, "assets", "send")
    /\ LET found == FindNodeByAuthToken(AuthTokenOf(Nid(i)))
       IN IF found = {}
          THEN /\ UNCHANGED store
               /\ agent' = [agent EXCEPT ![i] = [pc |-> "final", sub |-> "send",
                                                 outcome |-> NodeStatusFailed]]
          ELSE /\ \E nid \in found :
                     UpdateNodeStatus(nodes[nid].deployment_id, nid,
                                      NodeStatusDownloading, <<>>)
               /\ agent' = [agent EXCEPT ![i].pc = "extracting"]
    /\ UNCHANGED <<submit, execPc, prov, hb, term, dup, cleanup, req, deploymentDirs, logVars, gen, disk, pool>>

\* downloadBundle fails (bundle missing, transport error): the agent reports failed.
DownloadBundleFails(i) ==
    /\ AgentAt(i, "assets", "send")
    /\ agent' = [agent EXCEPT ![i] = [pc |-> "final", sub |-> "send",
                                      outcome |-> NodeStatusFailed]]
    /\ UNCHANGED <<store, submit, execPc, prov, hb, term, dup, cleanup, req, deploymentDirs, logVars, gen, disk, pool>>

\* executeSetup / monitorSetup: the script ends, cleanly or not; the agent reports
\* completed or failed.
MonitorSetup(i, outcome) ==
    /\ AgentAt(i, "exec", "send")
    /\ agent' = [agent EXCEPT ![i] = [pc |-> "final", sub |-> "send",
                                      outcome |-> outcome]]
    /\ UNCHANGED <<store, submit, execPc, prov, hb, term, dup, cleanup, req, deploymentDirs, logVars, gen, disk, pool>>

----------------------------------------------------------------------------
(* Agent.heartbeatLoop and the nodeHeartbeat handler.                      *)

\* nodeHeartbeat, first part: FindNodeByAuthToken (the handler keeps the copies it
\* returns; an unknown bearer is answered 401 and the agent cancels itself), then
\* UpdateNodeMetrics for req.Metrics and UpdateNodeLastSeen.  Nothing else reads or
\* writes metrics, so the three calls are taken as one step.
NodeHeartbeatFind(i) ==
    /\ hb[i].pc = "idle"
    /\ LET found == FindNodeByAuthToken(AuthTokenOf(Nid(i)))
       IN IF found = {}
          THEN /\ hb' = [hb EXCEPT ![i].pc = "cancelled"]
               /\ UNCHANGED store
          ELSE \E nid \in found :
                  /\ hb' = [hb EXCEPT ![i] = [pc |-> "status",
                                           status |-> nodes[nid].status,
                                           shutdown |-> nodes[nid].should_shutdown]]
                  /\ UpdateNodeMetrics(nodes[nid].deployment_id, nid, "metrics")
    /\ UNCHANGED <<submit, execPc, prov, agent, term, dup, cleanup, req, deploymentDirs, logVars, gen, disk, pool>>

\* The handler's test with the completed case forgotten.
HeartbeatPromotes_NoCompleted(status) ==
    /\ status # NodeStatusRunning
    /\ status # NodeStatusFailed
    /\ status # NodeStatusTerminated

\* The test nodeHeartbeat makes on its copy of the node before promoting it.
HeartbeatPromotes(status) ==
    /\ status # NodeStatusRunning
    /\ status # NodeStatusCompleted
    /\ status # NodeStatusFailed
    /\ status # NodeStatusTerminated

\* The body nodeHeartbeat answers with: shutdown is the copy's ShouldShutdown.
HeartbeatResponse(i) == [status |-> "ok", shutdown |-> hb[i].shutdown]

\* nodeHeartbeat, second part: UpdateNodeStatus(running) if the copy's status asks
\* for it, then 200 with HeartbeatResponse; shutdown = true makes the agent cancel.
NodeHeartbeatStatus(i) ==
    /\ hb[i].pc = "status"
    /\ IF HeartbeatPromotes(hb[i].status)
       THEN UpdateNodeStatus(Dep, Nid(i), NodeStatusRunning, <<>>)
       ELSE UNCHANGED store
    /\ hb' = [hb EXCEPT ![i] = [pc |-> IF HeartbeatResponse(i).shutdown
                                       THEN "cancelled" ELSE "idle",
                                 status |-> "", shutdown |-> FALSE]]
    /\ UNCHANGED <<submit, execPc, prov, agent, term, dup, cleanup, req, deploymentDirs, logVars, gen, disk, pool>>

----------------------------------------------------------------------------
(* deleteDeployment handler and Orchestrator.TerminateDeployment.          *)

\* deleteDeployment: GetDeployment finds it; TerminateDeployment begins with
\* UpdateDeploymentStatus(terminating).
TerminateDeploymentStart(d) ==
    /\ term.pc = "idle"
    /\ d \in DOMAIN deployments
    /\ UpdateDeploymentStatus(d, StatusTerminating, <<>>)
    /\ term' = [pc |-> "get", dep |-> d, i |-> 0, nodes |-> <<>>, files |-> "none"]
    /\ UNCHANGED <<submit, execPc, prov, agent, hb, dup, cleanup, req, deploymentDirs, logVars, gen, disk, pool>>

\* Store.GetNodesByDeployment: copies of the deployment's nodes, in list order (of a
\* copy, TerminateDeployment uses the node id only).
GetNodesByDeployment(d) ==
    [k \in 1..Len(nodesByDep[d]) |-> [node_id |-> nodesByDep[d][k]]]

\* GetNodesByDeployment: the copies the loop runs over.
TerminateDeploymentGetNodes ==
    /\ term.pc = "get"
    /\ term' = IF term.dep \in DOMAIN nodesByDep
               THEN [term EXCEPT !.pc = "loop", !.nodes = GetNodesByDeployment(term.dep)]
               ELSE [term EXCEPT !.pc = "done"]
    /\ UNCHANGED <<store, submit, execPc, prov, agent, hb, dup, cleanup, req, deploymentDirs, logVars, gen, disk, pool>>

\* One round of the loop: UpdateNodeStatus(terminated) for the next node.
TerminateDeploymentNode ==
    /\ term.pc = "loop"
    /\ term.i < Len(term.nodes)
    /\ UpdateNodeStatus(term.dep, term.nodes[term.i + 1].node_id,
                        NodeStatusTerminated, <<>>)
    /\ term' = [term EXCEPT !.i = @ + 1]
    /\ UNCHANGED <<submit, execPc, prov, agent, hb, dup, cleanup, req, deploymentDirs, logVars, gen, disk, pool>>

\* After the loop: UpdateDeploymentStatus(terminated).
TerminateDeploymentFinish ==
    /\ term.pc = "loop"
    /\ term.i = Len(term.nodes)
    /\ UpdateDeploymentStatus(term.dep, StatusTerminated, <<>>)
    /\ term' = [term EXCEPT !.pc = "done", !.files = "pending"]
    /\ UNCHANGED <<submit, execPc, prov, agent, hb, dup, cleanup, req, deploymentDirs, logVars, gen, disk, pool>>

\* Orchestrator.cleanupDeploymentFiles: GetDeployment, and if the record is there the
\* bundle file and the working directory are removed.
cleanupDeploymentFiles(d) ==
    IF d \in DOMAIN deployments THEN deploymentDirs \ {d} ELSE deploymentDirs

\* The goroutine TerminateDeployment leaves behind: cleanupDeploymentFiles two
\* seconds later.
TerminateDeploymentCleanupFiles ==
    /\ term.files = "pending"
    /\ deploymentDirs' = cleanupDeploymentFiles(term.dep)
    /\ term' = [term EXCEPT !.files = "removed"]
    /\ UNCHANGED <<store, submit, execPc, prov, agent, hb, dup, cleanup, req, logVars, gen, disk, pool>>

----------------------------------------------------------------------------
(* A registration request that repeats a provision token whose first       *)
(* registration has been answered 200 (registerNode again).                *)

Registered(i) == agent[i].pc \notin {"off", "register"}

\* registerNode: the scan for the token; 401 if no node carries it, else
\* UpdateNodeAuthToken.
RepeatRegisterAuth(i) ==
    /\ dup.pc = "idle"
    /\ Registered(i)
    /\ LET found == FindNodeByProvisionToken(ProvisionTokenOf(Nid(i)))
       IN IF found = {}
          THEN /\ dup' = [pc |-> "idle", node |-> Nid(i), resp |-> "401"]
               /\ UNCHANGED store
          ELSE /\ \E nid \in found :
                     UpdateNodeAuthToken(nodes[nid].deployment_id, nid, AuthTokenOf(nid))
               /\ dup' = [pc |-> "status", node |-> Nid(i), resp |-> "none"]
    /\ UNCHANGED <<submit, execPc, prov, agent, hb, term, cleanup, req, deploymentDirs, logVars, gen, disk, pool>>

\* registerNode: UpdateNodeStatus(registering), then 200 with the auth token.
RepeatRegisterStatus ==
    /\ dup.pc = "status"
    /\ UpdateNodeStatus(dup.node[1], dup.node, NodeStatusRegistering, <<>>)
    /\ dup' = [dup EXCEPT !.pc = "idle", !.resp = "200"]
    /\ UNCHANGED <<submit, execPc, prov, agent, hb, term, cleanup, req, deploymentDirs, logVars, gen, disk, pool>>

----------------------------------------------------------------------------
(* The protected node endpoints up to the point where the handler has a     *)
(* node: getNodeAssets, nodeHeartbeat, updateNodeStatus, pushNodeLogs.      *)

ProtectedEndpoints == {"assets", "heartbeat", "status", "logs"}

\* A well-formed token that no registration issued: the node it names was never recorded.
UnknownToken == AuthTokenOf(NodeID("dep_0", 0))

\* The headers a client may send: none, or a scheme followed by nothing, by a token
\* nobody was issued, or by a token a registration issues.
Headers ==
    {NoHeader} \cup
    {[scheme |-> s, token |-> t] :
        s \in {"Bearer ", "Basic "},
        t \in {NoToken, UnknownToken} \cup {AuthTokenOf(NodeID(d, i)) : d \in DepIds, i \in NodeIdx}}

\* authHeader == "" is refused; len(authHeader) > 7 && authHeader[:7] == "Bearer "
\* yields authHeader[7:], anything else is refused.
ExtractBearer(h) ==
    IF h = NoHeader
    THEN [ok |-> FALSE, token |-> NoToken]
    ELSE IF h.scheme = "Bearer " /\ h.token # NoToken
         THEN [ok |-> TRUE, token |-> h.token]
         ELSE [ok |-> FALSE, token |-> NoToken]

\* The response a handler gives before it has touched the store, 0 when it goes on
\* with a node: 401 for a refused header; updateNodeStatus binds the body (400) before
\* it looks the token up; 401 when FindNodeByAuthToken finds nothing; pushNodeLogs
\* binds the body after the lookup.
ProtectedResponse(endpoint, h, body_ok) ==
    LET b == ExtractBearer(h)
    IN IF ~b.ok THEN 401
       ELSE IF endpoint = "status" /\ ~body_ok THEN 400
       ELSE IF FindNodeByAuthToken(b.token) = {} THEN 401
       ELSE IF endpoint = "logs" /\ ~body_ok THEN 400
       ELSE 0

\* A request that a handler answers on one of these early returns.
NodeRequestRefused(endpoint, h, body_ok) ==
    /\ ProtectedResponse(endpoint, h, body_ok) # 0
    /\ req' = [endpoint |-> endpoint, header |-> h, body_ok |-> body_ok,
               code |-> ProtectedResponse(endpoint, h, body_ok)]
    /\ UNCHANGED <<store, submit, execPc, prov, agent, hb, term, dup, cleanup, deploymentDirs, logVars, gen, disk, pool>>

\* The entries a client may put in the body of POST /nodes/logs: any deployment id
\* and node id, its own or not.
ClientLogEntries ==
    [deployment_id : DepIds \cup {"dep_0"},
     node_id : {NodeID(d, i) : d \in DepIds, i \in NodeIdx},
     timestamp : Timestamps]

\* The bodies followed: one entry up to as many as the buffer holds.
ClientBatches == UNION {[1..k -> ClientLogEntries] : k \in 1..maxLogsPerDeployment}

\* The loop that takes the client's two fields as they came.
StampLogs_Trusting(batch, d, nid) == batch

\* pushNodeLogs' loop: DeploymentID and NodeID of every entry are set from the node
\* and deployment FindNodeByAuthToken returned.
StampLogs(batch, d, nid) ==
    [k \in 1..Len(batch) |-> [batch[k] EXCEPT !.deployment_id = d, !.node_id = nid]]

\* pushNodeLogs with a bearer that resolves and a body that parses: the entries are
\* stamped and handed to AppendLogs; 200 (500 if AppendLogs fails).
PushNodeLogs(h, batch) ==
    /\ ProtectedResponse("logs", h, TRUE) = 0
    /\ \E nid \in FindNodeByAuthToken(ExtractBearer(h).token) :
          LET d == nodes[nid].deployment_id
          IN /\ Len(AppendedTo(d)) + Len(batch) <= maxLogsPerDeployment
             /\ AppendLogs(d, StampLogs(batch, d, nid))
             /\ req' = [endpoint |-> "logs", header |-> h, body_ok |-> TRUE,
                        code |-> IF AppendLogsFails(d) THEN 500 ELSE 200]
    /\ UNCHANGED <<store, submit, execPc, prov, agent, hb, term, dup, cleanup,
                   deploymentDirs, query, gen, disk, pool>>

----------------------------------------------------------------------------
(* cleanupDeployment handler, Orchestrator.CleanupAllCompleted (POST       *)
(* /cleanup/all and the ten-minute sweep) and Orchestrator.CleanupDeployment. *)

\* The test cleanupDeployment makes on its GetDeployment copy, and CleanupAllCompleted
\* on each of its GetAllDeployments copies: completed, failed or terminated goes on
\* to CleanupDeployment; anything else is answered 400 (or skipped).
CleanupCheck(d) ==
    /\ cleanup.pc = "idle"
    /\ d \in DOMAIN deployments
    /\ cleanup' = IF deployments[d].status \in TerminalDeploymentStatuses
                  THEN [pc |-> "delete", dep |-> d]
                  ELSE [pc |-> "idle", dep |-> d]
    /\ UNCHANGED <<store, submit, execPc, prov, agent, hb, term, dup, req, deploymentDirs, logVars, gen, disk, pool>>

\* Orchestrator.CleanupDeployment: GetDeployment (an error if it is gone), the bundle
\* and the extraction directory are removed, then DeleteDeployment.
CleanupDeploymentDelete ==
    /\ cleanup.pc = "delete"
    /\ deploymentDirs' = cleanupDeploymentFiles(cleanup.dep)
    /\ DeleteDeployment(cleanup.dep)
    /\ cleanup' = [cleanup EXCEPT !.pc = "idle"]
    /\ UNCHANGED <<submit, execPc, prov, agent, hb, term, dup, req, logVars, gen, disk, pool>>

----------------------------------------------------------------------------
(* metadata.GenerateNodeConfigs (internal/metadata/simple.go).  A string is  *)
(* a sequence of pieces, a piece being a placeholder such as "{a}" or other *)
(* text; a config value is a string or a list of items.                     *)

MaxCount == 3
MaxListLen == 4

Str(pieces) == [kind |-> "string", v |-> pieces]
List(items) == [kind |-> "list", v |-> items]

\* fmt.Sprintf("{%s}", key)
Placeholder(key) ==
    CASE key = "a" -> "{a}"
      [] key = "b" -> "{b}"
      [] key = "c" -> "{c}"

\* strings.ReplaceAll(result, placeholder, v)
RECURSIVE ReplaceAll(_, _, _)
ReplaceAll(result, placeholder, v) ==
    IF result = <<>>
    THEN <<>>
    ELSE (IF Head(result) = placeholder THEN v ELSE <<Head(result)>>)
            \o ReplaceAll(Tail(result), placeholder, v)

\* The orders in which a range over a map with these keys may visit them.
RangeOrders(keys) ==
    {ord \in [1..Cardinality(keys) -> keys] :
        \A m, n \in 1..Cardinality(keys) : m # n => ord[m] # ord[n]}

\* processSimpleTemplate's loop over nodeConfig.Config, visiting the keys in the order
\* ord: the value itself if the string is just the key's placeholder, else the
\* placeholder is replaced if the value is a string (lists are not substituted).
RECURSIVE processConfigKeys(_, _, _)
processConfigKeys(result, config, ord) ==
    IF ord = <<>>
    THEN Str(result)
    ELSE LET val == config[Head(ord)]
             placeholder == Placeholder(Head(ord))
         IN IF result = <<placeholder>>
            THEN val
            ELSE processConfigKeys(IF val.kind = "string"
                                   THEN ReplaceAll(result, placeholder, val.v)
                                   ELSE result,
                                   config, Tail(ord))

\* processSimpleTemplate for a string value: {node_index} first, then the config keys.
processSimpleTemplate(value, node_index, config, ord) ==
    processConfigKeys(ReplaceAll(value.v, "{node_index}", <<ToString(node_index)>>),
                      config, ord)

\* The distributed-lists loop, had it stepped itemIndex by one.
RECURSIVE nodeItems_Contiguous(_, _, _)
nodeItems_Contiguous(listItems, itemIndex, count) ==
    IF itemIndex >= Len(listItems)
    THEN <<>>
    ELSE <<listItems[itemIndex + 1]>> \o nodeItems_Contiguous(listItems, itemIndex + 1, count)

\* The items the distributed-lists loop collects for a node: itemIndex runs from the
\* node index in steps of count while it is below len(listItems).
RECURSIVE nodeItems(_, _, _)
nodeItems(listItems, itemIndex, count) ==
    IF itemIndex >= Len(listItems)
    THEN <<>>
    ELSE <<listItems[itemIndex + 1]>> \o nodeItems(listItems, itemIndex + count, count)

\* The item that is none of string, int, int64, float64, bool.
ComplexItem == "#"

\* ValidateNodesConfig: count > 0 and no distributed list is empty.
ValidateNodesConfig(cfg) ==
    /\ cfg.count > 0
    /\ \A name \in DOMAIN cfg.distributed_lists : Len(cfg.distributed_lists[name]) > 0

\* nodeConfig.Config[key] = value
Put(config, key, value) ==
    [x \in DOMAIN config \cup {key} |-> IF x = key THEN value ELSE config[x]]

\* nodeConfig.Config of node i after the global metadata was copied and the lists were
\* distributed: a list with no item for the node stores nothing.
ConfigBeforeTemplate(cfg, i) ==
    LET withItems == {name \in DOMAIN cfg.distributed_lists :
                        nodeItems(cfg.distributed_lists[name], i, cfg.count) # <<>>}
    IN [key \in DOMAIN cfg.global_metadata \cup withItems |->
           IF key \in withItems
           THEN List(nodeItems(cfg.distributed_lists[key], i, cfg.count))
           ELSE cfg.global_metadata[key]]

\* The loop over ConfigTemplate: the range visits the keys not yet done in any order,
\* and each processSimpleTemplate call ranges over the config built so far in any
\* order.  The configs that can come out.
RECURSIVE applyTemplate(_, _, _, _)
applyTemplate(config, template, todo, i) ==
    IF todo = {}
    THEN {config}
    ELSE UNION {applyTemplate(Put(config, key,
                                  processSimpleTemplate(template[key], i, config, ord)),
                              template, todo \ {key}, i) :
                  key \in todo, ord \in RangeOrders(DOMAIN config)}

\* The configs GenerateNodeConfigs can build for node i.
NodeConfigs(cfg, i) ==
    applyTemplate(ConfigBeforeTemplate(cfg, i), cfg.config_template,
                  DOMAIN cfg.config_template, i)

\* The NodesConfig values followed.  A list is a run of distinct items, with or
\* without the complex item in one place.
Items == <<"p", "q", "r", "s", "t">>
ItemLists ==
    {SubSeq(Items, 1, len) : len \in 0..MaxListLen} \cup
    {[k \in 1..MaxListLen |-> IF k = at THEN ComplexItem ELSE Items[k]] :
        at \in 1..MaxListLen}

\* The maps from some of keys to values.
PartialMaps(keys, values) == UNION {[K -> values] : K \in SUBSET keys}

NodesConfigs ==
    [count : 0..MaxCount,
     global_metadata : PartialMaps({"a", "b"}, {Str(<<"x">>), Str(<<"{b}">>)}),
     distributed_lists : {m \in PartialMaps({"a", "c"}, ItemLists) :
                            "c" \in DOMAIN m => m["c"] = SubSeq(Items, 1, 2)},
     config_template : PartialMaps({"b", "c"},
                                   {Str(<<"{c}">>), Str(<<"{node_index}">>),
                                    Str(<<"{a}", "-", "{b}">>)})]

\* What a call returned: an error, or the nodes' configs in index order.
GenerateError == [err |-> TRUE, configs |-> <<>>]
Generated(configs) == [err |-> FALSE, configs |-> configs]

\* Where the caller is once a call has returned.
AfterCall == IF gen.call = 1 THEN "once" ELSE "twice"

\* The call has returned out: the first call's result or the second's is set.
GenerateReturns(out) ==
    gen' = IF gen.call = 1
           THEN [gen EXCEPT !.pc = AfterCall, !.first = out, !.configs = <<>>, !.i = 0]
           ELSE [gen EXCEPT !.pc = AfterCall, !.second = out, !.configs = <<>>, !.i = 0]

\* GenerateNodeConfigs is called, for the first time or again for the same
\* NodesConfig: ValidateNodesConfig, and an error return or the loop begins.
GenerateNodeConfigsCall ==
    /\ gen.pc \in {"input", "once"}
    /\ LET call == IF gen.pc = "input" THEN 1 ELSE 2
       IN IF ValidateNodesConfig(gen.cfg)
          THEN gen' = [gen EXCEPT !.pc = "loop", !.call = call, !.i = 0, !.configs = <<>>]
          ELSE gen' = IF call = 1
                      THEN [gen EXCEPT !.pc = "once", !.call = call, !.first = GenerateError]
                      ELSE [gen EXCEPT !.pc = "twice", !.call = call, !.second = GenerateError]
    /\ UNCHANGED <<store, submit, execPc, prov, agent, hb, term, dup, cleanup, req,
                   deploymentDirs, logVars, disk, pool>>

\* The node's share of some list has the complex item.
MeetsComplexItem(cfg, i) ==
    \E name \in DOMAIN cfg.distributed_lists :
        \E k \in 1..Len(nodeItems(cfg.distributed_lists[name], i, cfg.count)) :
            nodeItems(cfg.distributed_lists[name], i, cfg.count)[k] = ComplexItem

\* One round of the loop over the node indexes: the error return if the node's share
\* has a complex item, else the node's config is built; after the last round the
\* configs are returned.
GenerateNodeConfigsNode ==
    /\ gen.pc = "loop"
    /\ IF MeetsComplexItem(gen.cfg, gen.i)
       THEN GenerateReturns(GenerateError)
       ELSE \E config \in NodeConfigs(gen.cfg, gen.i) :
               IF gen.i + 1 = gen.cfg.count
               THEN GenerateReturns(Generated(Append(gen.configs, config)))
               ELSE gen' = [gen EXCEPT !.i = @ + 1, !.configs = Append(@, config)]
    /\ UNCHANGED <<store, submit, execPc, prov, agent, hb, term, dup, cleanup, req,
                   deploymentDirs, logVars, disk, pool>>

MetadataInit ==
    /\ DaemonInit
    /\ gen \in [pc : {"input"}, cfg : NodesConfigs, call : {0}, i : {0}, configs : {<<>>},
                 first : {<<>>}, second : {<<>>}]

MetadataNext == GenerateNodeConfigsCall \/ GenerateNodeConfigsNode

MetadataSpec == MetadataInit /\ [][MetadataNext]_vars

----------------------------------------------------------------------------
(* The disk-backed store (internal/state/disk_store.go): every mutator     *)
(* changes the maps as the in-memory store's does and then saves them to   *)
(* state.json; NewDiskStore loads the file.                                *)

\* The zero values json.Unmarshal leaves in a field the file has no key for.
ZeroDeployment ==
    [status |-> "", cloud_provider |-> "", total_nodes |-> 0, nodes_completed |-> 0,
     nodes_failed |-> 0, completed_at |-> FALSE, error_message |-> ""]
ZeroNode ==
    [deployment_id |-> "", node_index |-> 0, status |-> "", provision_token |-> NoToken,
     auth_token |-> NoToken, should_shutdown |-> FALSE, error_message |-> "",
     instance_id |-> "", metrics |-> "none"]

\* The fields tagged omitempty.
DeploymentOmitEmpty == {"completed_at", "error_message"}
NodeOmitEmpty ==
    {"instance_id", "provision_token", "auth_token", "error_message", "metrics"}

\* json.Marshal of a struct: a key for each field, but for the omitempty fields that
\* hold the zero value.
Marshal(v, zero, omitEmpty) ==
    [k \in {f \in DOMAIN v : ~(f \in omitEmpty /\ v[f] = zero[f])} |-> v[k]]

\* json.Unmarshal into a fresh struct: the fields the object has keys for are set.
Unmarshal(obj, zero) ==
    [k \in DOMAIN zero |-> IF k \in DOMAIN obj THEN obj[k] ELSE zero[k]]

\* json.MarshalIndent(persistedState{Deployments, Nodes}).
Serialised(deps, nds) ==
    [deployments |-> [d \in DOMAIN deps |-> Marshal(deps[d], ZeroDeployment, DeploymentOmitEmpty)],
     nodes |-> [n \in DOMAIN nds |-> Marshal(nds[n], ZeroNode, NodeOmitEmpty)]]

\* What state.json holds.
StateFile(dsk) == [deployments |-> dsk.deployments, nodes |-> dsk.nodes]

\* How a call of save can go: it returns nil, os.WriteFile or os.Rename returns an
\* error, or the process stops while the temp file is being written, before the rename
\* or after it.
SaveOutcomes ==
    {"ok", "write failed", "rename failed",
     "stop in write", "stop before rename", "stop after rename"}

\* The calls of save that do not return nil, in one run.
MaxFaults == 1

\* state.json with the serialisation of deps and nds in it, the temp file renamed.
Renamed(dsk, deps, nds) ==
    [exists |-> TRUE, deployments |-> Serialised(deps, nds).deployments,
     nodes |-> Serialised(deps, nds).nodes, torn |-> FALSE, tmp |-> "none",
     ret |-> "nil", stopped |-> FALSE, faults |-> dsk.faults]

\* One more save has failed or has been cut short.
Faulted(dsk) == [dsk EXCEPT !.faults = @ + 1]

\* save that writes state.json itself.
save_InPlace(dsk, deps, nds, outcome) ==
    CASE outcome = "ok" -> Renamed(dsk, deps, nds)
      [] outcome \in {"write failed", "rename failed"} ->
            [Faulted(dsk) EXCEPT !.exists = TRUE, !.torn = TRUE, !.ret = "save failed"]
      [] outcome \in {"stop in write", "stop before rename"} ->
            [Faulted(dsk) EXCEPT !.exists = TRUE, !.torn = TRUE, !.ret = "none", !.stopped = TRUE]
      [] outcome = "stop after rename" ->
            [Renamed(Faulted(dsk), deps, nds) EXCEPT !.ret = "none", !.stopped = TRUE]

\* DiskStore.save on the files dsk: the state is marshalled, written to state.json.tmp,
\* and the temp file renamed to state.json.  tmp tells whether the temp file is there
\* and whether all of the data got into it; ret is what the mutator returns.
save(dsk, deps, nds, outcome) ==
    CASE outcome = "ok" -> Renamed(dsk, deps, nds)
      [] outcome = "write failed" -> [Faulted(dsk) EXCEPT !.tmp = "torn", !.ret = "save failed"]
      [] outcome = "rename failed" -> [Faulted(dsk) EXCEPT !.tmp = "whole", !.ret = "save failed"]
      [] outcome = "stop in write" ->
            [Faulted(dsk) EXCEPT !.tmp = "torn", !.ret = "none", !.stopped = TRUE]
      [] outcome = "stop before rename" ->
            [Faulted(dsk) EXCEPT !.tmp = "whole", !.ret = "none", !.stopped = TRUE]
      [] outcome = "stop after rename" ->
            [Renamed(Faulted(dsk), deps, nds) EXCEPT !.ret = "none", !.stopped = TRUE]

\* A mutator that returns the error of its own checks, before it has changed anything.
Refused(dsk) == [dsk EXCEPT !.ret = "error"]

\* The loop of load that rebuilds nodesByDep, ranging over the nodes in the order ord.
RECURSIVE rebuildNodesByDep(_, _, _)
rebuildNodesByDep(byDep, nds, ord) ==
    IF ord = <<>>
    THEN byDep
    ELSE LET d == nds[Head(ord)].deployment_id
         IN rebuildNodesByDep([x \in DOMAIN byDep \cup {d} |->
                                  IF x = d
                                  THEN (IF d \in DOMAIN byDep
                                        THEN Append(byDep[d], Head(ord))
                                        ELSE <<Head(ord)>>)
                                  ELSE byDep[x]],
                              nds, Tail(ord))

\* NewDiskStore after a restart: empty maps, and load fills them from state.json if
\* the file is there; a state.json that does not parse makes NewDiskStore fail, and the
\* daemon does not start.
NewDiskStore ==
    /\ IF disk.torn
       THEN UNCHANGED store
       ELSE IF disk.exists
       THEN /\ deployments' = [d \in DOMAIN disk.deployments |->
                                  Unmarshal(disk.deployments[d], ZeroDeployment)]
            /\ nodes' = [n \in DOMAIN disk.nodes |-> Unmarshal(disk.nodes[n], ZeroNode)]
            /\ \E ord \in RangeOrders(DOMAIN disk.nodes) :
                   nodesByDep' = rebuildNodesByDep(<<>>, nodes', ord)
       ELSE /\ deployments' = <<>>
            /\ nodes' = <<>>
            /\ nodesByDep' = <<>>
    /\ disk' = [disk EXCEPT !.ret = "none", !.stopped = disk.torn]
    /\ UNCHANGED <<submit, execPc, prov, agent, hb, term, dup, cleanup, req,
                   deploymentDirs, logVars, gen, pool>>

\* DiskStore.CreateDeployment
DiskStore_CreateDeployment(d, count, outcome) ==
    /\ ~disk.stopped
    /\ outcome = "ok" \/ disk.faults < MaxFaults
    /\ CreateDeployment(d, NewDeployment("local", count))
    /\ disk' = IF CreateDeploymentFails(d) THEN Refused(disk)
                ELSE save(disk, deployments', nodes', outcome)
    /\ UNCHANGED <<submit, execPc, prov, agent, hb, term, dup, cleanup, req,
                   deploymentDirs, logVars, gen, pool>>

\* DiskStore.CreateNode
DiskStore_CreateNode(d, i, outcome) ==
    /\ ~disk.stopped
    /\ outcome = "ok" \/ disk.faults < MaxFaults
    /\ CreateNode(NodeID(d, i), NewNode(d, i, ProvisionTokenOf(NodeID(d, i))))
    /\ disk' = IF CreateNodeFails(NodeID(d, i)) THEN Refused(disk)
                ELSE save(disk, deployments', nodes', outcome)
    /\ UNCHANGED <<submit, execPc, prov, agent, hb, term, dup, cleanup, req,
                   deploymentDirs, logVars, gen, pool>>

\* DiskStore.UpdateDeploymentStatus
DiskStore_UpdateDeploymentStatus(d, status, outcome) ==
    /\ ~disk.stopped
    /\ outcome = "ok" \/ disk.faults < MaxFaults
    /\ UpdateDeploymentStatus(d, status, <<>>)
    /\ disk' = IF UpdateDeploymentStatusFails(d) THEN Refused(disk)
                ELSE save(disk, deployments', nodes', outcome)
    /\ UNCHANGED <<submit, execPc, prov, agent, hb, term, dup, cleanup, req,
                   deploymentDirs, logVars, gen, pool>>

\* DiskStore.UpdateNodeStatus
DiskStore_UpdateNodeStatus(d, nid, status, outcome) ==
    /\ ~disk.stopped
    /\ outcome = "ok" \/ disk.faults < MaxFaults
    /\ UpdateNodeStatus(d, nid, status, <<>>)
    /\ disk' = IF NodeUpdateFails(d, nid) THEN Refused(disk)
                ELSE save(disk, deployments', nodes', outcome)
    /\ UNCHANGED <<submit, execPc, prov, agent, hb, term, dup, cleanup, req,
                   deploymentDirs, logVars, gen, pool>>

\* DiskStore.UpdateNodeAuthToken
DiskStore_UpdateNodeAuthToken(d, nid, outcome) ==
    /\ ~disk.stopped
    /\ outcome = "ok" \/ disk.faults < MaxFaults
    /\ UpdateNodeAuthToken(d, nid, AuthTokenOf(nid))
    /\ disk' = IF NodeUpdateFails(d, nid) THEN Refused(disk)
                ELSE save(disk, deployments', nodes', outcome)
    /\ UNCHANGED <<submit, execPc, prov, agent, hb, term, dup, cleanup, req,
                   deploymentDirs, logVars, gen, pool>>

\* DiskStore.DeleteDeployment
DiskStore_DeleteDeployment(d, outcome) ==
    /\ ~disk.stopped
    /\ outcome = "ok" \/ disk.faults < MaxFaults
    /\ DeleteDeployment(d)
    /\ disk' = IF d \notin DOMAIN deployments THEN Refused(disk)
                ELSE save(disk, deployments', nodes', outcome)
    /\ UNCHANGED <<submit, execPc, prov, agent, hb, term, dup, cleanup, req,
                   deploymentDirs, logVars, gen, pool>>

\* DiskStore.GetNodesByDeployment on the maps handed: an error if the index has no
\* entry for the deployment, else copies of the nodes on its list, in the list's order.
DiskStore_GetNodesByDeployment(byDep, nds, d) ==
    IF d \notin DOMAIN byDep
    THEN [err |-> TRUE, nodes |-> <<>>]
    ELSE [err |-> FALSE, nodes |-> [k \in 1..Len(byDep[d]) |-> nds[byDep[d][k]]]]

\* The statuses the mutators are called with here.
DiskNodeStatuses == {NodeStatusCompleted, NodeStatusFailed}
DiskDeploymentStatuses == {StatusProvisioning, StatusTerminated}

\* The disk store under any sequence of mutations and restarts.
DiskNext ==
    \/ \E d \in DepIds, c \in 0..NumNodes, o \in SaveOutcomes :
          DiskStore_CreateDeployment(d, c, o)
    \/ \E d \in DepIds, i \in NodeIdx, o \in SaveOutcomes : DiskStore_CreateNode(d, i, o)
    \/ \E d \in DepIds, status \in DiskDeploymentStatuses, o \in SaveOutcomes :
          DiskStore_UpdateDeploymentStatus(d, status, o)
    \/ \E d \in DepIds, i \in NodeIdx, status \in DiskNodeStatuses, o \in SaveOutcomes :
          DiskStore_UpdateNodeStatus(d, NodeID(d, i), status, o)
    \/ \E d \in DepIds, i \in NodeIdx, o \in SaveOutcomes :
          DiskStore_UpdateNodeAuthToken(d, NodeID(d, i), o)
    \/ \E d \in DepIds, o \in SaveOutcomes : DiskStore_DeleteDeployment(d, o)
    \/ NewDiskStore

DiskSpec == Init /\ [][DiskNext]_vars

----------------------------------------------------------------------------
(* cloud.ResourcePool (internal/cloud/pool.go).  Acquire, Release,          *)
(* Terminate and scheduleCleanup hold p.mu from start to end and are one    *)
(* step each; provisionAheadInstances takes the lock twice per round, with  *)
(* the provider call in between.  The pool's idleTimeout is positive.       *)

notPool == <<deployments, nodes, nodesByDep, submit, execPc, prov, agent, hb, term, dup,
             cleanup, req, deploymentDirs, logs, appended, query, gen, disk>>

\* The PooledInstance ProvisionPooled builds from what the provider returns (the
\* providers of the repository return Status "running").
PooledInstance(type, inUse, reserved) ==
    [type |-> type, status |-> "running", in_use |-> inUse, reserved |-> reserved]

\* len(p.instances)
PoolSize == Cardinality(DOMAIN pool.instances)

\* A matchesConfig that compares nothing.
matchesConfig_AnyType(pooled, type) == TRUE

\* ResourcePool.matchesConfig
matchesConfig(pooled, type) == pooled.type = type

\* The test of Acquire's loop without its InUse part.
Available_InUseToo(type) ==
    {id \in DOMAIN pool.instances :
        /\ ~pool.instances[id].reserved
        /\ pool.instances[id].status = "running"
        /\ matchesConfig(pool.instances[id], type)}

\* The instances that pass the test of Acquire's loop; the range over the map meets
\* any of them first.
Available(type) ==
    {id \in DOMAIN pool.instances :
        /\ ~pool.instances[id].in_use
        /\ ~pool.instances[id].reserved
        /\ pool.instances[id].status = "running"
        /\ matchesConfig(pool.instances[id], type)}

\* pooled.LastUsed = time.Now() for instance id: the scheduleCleanup goroutines started
\* for it before no longer know that the timeout has passed since.
Touched(cleanups, id) ==
    {[c EXCEPT !.fresh = IF c.id = id THEN FALSE ELSE @] : c \in cleanups}

\* delete(p.instances, id); the scheduleCleanup goroutines sleeping for the instance
\* will find it gone and return, and are left out from here on.
Deleted(p, id) ==
    [p EXCEPT !.instances = [x \in DOMAIN @ \ {id} |-> @[x]],
              !.cleanups = {c \in @ : c.id # id}]

\* What a pool call returned.
Returned(op, id, err, provisioned) ==
    [op |-> op, id |-> id, err |-> err, provisioned |-> provisioned]

\* The slot of the next provisionAheadInstances goroutine (slots tell the goroutines
\* apart, no more).
NewGoroutine == CHOOSE g \in 1..MaxProvisions : g \notin DOMAIN pool.ahead

\* ResourcePool.Acquire for an InstanceConfig of the type; ok tells whether the provider,
\* if called, provisions.
Acquire(type, ok) ==
    /\ IF Available(type) # {}
       THEN \E id \in Available(type) :
               pool' = [pool EXCEPT !.instances[id].in_use = TRUE,
                                    !.cleanups = Touched(@, id),
                                    !.held = @ \cup {id},
                                    !.last = Returned("acquire", id, "", FALSE)]
       ELSE IF PoolSize >= MaxInstances
       THEN pool' = [pool EXCEPT !.last = Returned("acquire", NoInstance,
                                                   "maximum capacity", FALSE)]
       ELSE /\ pool.next <= MaxProvisions
            /\ IF ~ok
               THEN pool' = [pool EXCEPT !.last = Returned("acquire", NoInstance,
                                                           "failed to provision", TRUE)]
               ELSE pool' =
                      [pool EXCEPT
                         !.instances = [x \in DOMAIN @ \cup {pool.next} |->
                                           IF x = pool.next
                                           THEN PooledInstance(type, TRUE, FALSE)
                                           ELSE @[x]],
                         !.next = @ + 1,
                         !.ahead = IF provisionAhead > 0
                                   THEN [g \in DOMAIN @ \cup {NewGoroutine} |->
                                            IF g = NewGoroutine
                                            THEN [type |-> type, i |-> 0, pc |-> "count",
                                                  id |-> NoInstance]
                                            ELSE @[g]]
                                   ELSE @,
                         !.held = @ \cup {pool.next},
                         !.last = Returned("acquire", pool.next, "", TRUE)]
    /\ UNCHANGED notPool

\* The goroutines once goroutine g has finished a round of its loop: it is gone when
\* i has reached provisionAhead, else it is at the head of the next round.
RoundOver(ahead, g) ==
    IF ahead[g].i + 1 >= provisionAhead
    THEN [x \in DOMAIN ahead \ {g} |-> ahead[x]]
    ELSE [ahead EXCEPT ![g] = [type |-> @.type, i |-> @.i + 1, pc |-> "count",
                               id |-> NoInstance]]

\* provisionAheadInstances, the head of a round: the loop ends when the count read
\* under the read lock has reached maxInstances.
ProvisionAheadCount(g) ==
    /\ g \in DOMAIN pool.ahead
    /\ pool.ahead[g].pc = "count"
    /\ IF PoolSize >= MaxInstances
       THEN pool' = [pool EXCEPT !.ahead = [x \in DOMAIN @ \ {g} |-> @[x]]]
       ELSE pool' = [pool EXCEPT !.ahead[g].pc = "provision"]
    /\ UNCHANGED notPool

\* provisionAheadInstances: ProvisionPooled, with no lock held; on an error the
\* round is over.
ProvisionAheadProvision(g, ok) ==
    /\ g \in DOMAIN pool.ahead
    /\ pool.ahead[g].pc = "provision"
    /\ pool.next <= MaxProvisions
    /\ IF ok
       THEN pool' = [pool EXCEPT !.ahead[g].pc = "add", !.ahead[g].id = pool.next,
                                 !.next = @ + 1]
       ELSE pool' = [pool EXCEPT !.ahead = RoundOver(@, g)]
    /\ UNCHANGED notPool

\* provisionAheadInstances: the instance is put into the map as reserved.
ProvisionAheadAdd(g) ==
    /\ g \in DOMAIN pool.ahead
    /\ pool.ahead[g].pc = "add"
    /\ pool' = [pool EXCEPT
                  !.instances = [x \in DOMAIN @ \cup {pool.ahead[g].id} |->
                                    IF x = pool.ahead[g].id
                                    THEN PooledInstance(pool.ahead[g].type, FALSE, TRUE)
                                    ELSE @[x]],
                  !.ahead = RoundOver(@, g)]
    /\ UNCHANGED notPool

\* ResourcePool.Release: InUse is cleared and scheduleCleanup is started.
Release(id) ==
    /\ IF id \notin DOMAIN pool.instances
       THEN pool' = [pool EXCEPT !.last = Returned("release", NoInstance, "not found",
                                                   FALSE)]
       ELSE pool' = [pool EXCEPT !.instances[id].in_use = FALSE,
                                 !.cleanups = Touched(@, id) \cup {[id |-> id, fresh |-> TRUE]},
                                 !.held = @ \ {id},
                                 !.last = Returned("release", id, "", FALSE)]
    /\ UNCHANGED notPool

\* scheduleCleanup once its sleep is over: the instance is terminated and removed if
\* it is there, not in use, idle for the timeout (so it is if LastUsed was not set
\* since the goroutine started; else elapsed tells) and the pool is above minInstances.
scheduleCleanup(c, elapsed) ==
    /\ c \in pool.cleanups
    /\ IF /\ c.id \in DOMAIN pool.instances
          /\ ~pool.instances[c.id].in_use
          /\ c.fresh \/ elapsed
          /\ PoolSize > MinInstances
       THEN pool' = Deleted(pool, c.id)
       ELSE pool' = [pool EXCEPT !.cleanups = @ \ {c}]
    /\ UNCHANGED notPool

\* ResourcePool.Terminate; ok tells whether the provider terminates the instance.
PoolTerminate(id, ok) ==
    /\ IF id \notin DOMAIN pool.instances
       THEN pool' = [pool EXCEPT !.last = Returned("terminate", NoInstance,
                                                   "not found", FALSE)]
       ELSE IF ~ok
       THEN pool' = [pool EXCEPT !.last = Returned("terminate", NoInstance,
                                                   "failed to terminate", FALSE)]
       ELSE pool' = [Deleted(pool, id) EXCEPT
                        !.held = @ \ {id},
                        !.last = Returned("terminate", NoInstance, "", FALSE)]
    /\ UNCHANGED notPool

\* The pool under concurrent callers and its own goroutines.
PoolNext ==
    \/ \E type \in InstanceTypes, ok \in BOOLEAN : Acquire(type, ok)
    \/ \E g \in 1..MaxProvisions : ProvisionAheadCount(g)
    \/ \E g \in 1..MaxProvisions, ok \in BOOLEAN : ProvisionAheadProvision(g, ok)
    \/ \E g \in 1..MaxProvisions : ProvisionAheadAdd(g)
    \/ \E id \in 1..MaxProvisions : Release(id)
    \/ \E c \in pool.cleanups, elapsed \in BOOLEAN : scheduleCleanup(c, elapsed)
    \/ \E id \in 1..MaxProvisions, ok \in BOOLEAN : PoolTerminate(id, ok)

PoolSpec == Init /\ [][PoolNext]_vars

(***************************************************************************)
(* The completion summary with its wall-clock stamp.  Here completed_at    *)
(* holds the time.Now() that was stored, ZeroTime for nil; the clock never *)
(* runs backwards, so a call reads a time that is no earlier than any      *)
(* stamp in the store.                                                     *)
(***************************************************************************)
notStore == <<submit, execPc, prov, agent, hb, term, dup, cleanup, req, deploymentDirs,
              logVars, gen, disk, pool>>

\* Store.checkDeploymentCompletion run when the clock reads now:
\* `now := time.Now(); deployment.CompletedAt = &now` whenever all nodes are done.
checkDeploymentCompletionAt(deps, nds, byDep, d, now) ==
    IF d \notin DOMAIN deps THEN deps
    ELSE LET summary == checkDeploymentCompletion(deps, nds, byDep, d)
             done    == summary[d].nodes_completed + summary[d].nodes_failed
                            = summary[d].total_nodes
         IN [summary EXCEPT ![d].completed_at =
                IF done THEN now ELSE deps[d].completed_at]

\* The latest completed_at in the store.
RECURSIVE LatestStamp(_, _)
LatestStamp(deps, ids) ==
    IF ids = {} THEN ZeroTime
    ELSE LET d    == CHOOSE x \in ids : TRUE
             rest == LatestStamp(deps, ids \ {d})
         IN IF deps[d].completed_at > rest THEN deps[d].completed_at ELSE rest

\* The readings time.Now() can give in the current state.
Now == {t \in Timestamps : t >= LatestStamp(deployments, DOMAIN deployments)}

SummaryCreateDeployment(d, count) ==
    /\ CreateDeployment(d, [NewDeployment("local", count) EXCEPT !.completed_at = ZeroTime])
    /\ UNCHANGED notStore

SummaryCreateNode(d, i) ==
    /\ d \in DOMAIN deployments
    /\ i < deployments[d].total_nodes
    /\ CreateNode(NodeID(d, i), NewNode(d, i, ProvisionTokenOf(NodeID(d, i))))
    /\ UNCHANGED notStore

\* Store.UpdateNodeStatus when the clock reads now.
SummaryUpdateNodeStatus(d, nid, status, now) ==
    /\ ~NodeUpdateFails(d, nid)
    /\ now \in Now
    /\ nodes' = NodeWithStatus(nodes, nid, status, <<>>)
    /\ deployments' = checkDeploymentCompletionAt(deployments, nodes', nodesByDep, d, now)
    /\ UNCHANGED nodesByDep
    /\ UNCHANGED notStore

SummaryNodeStatuses ==
    {NodeStatusProvisioning, NodeStatusRunning, NodeStatusCompleted, NodeStatusFailed}

SummaryNext ==
    \/ \E d \in DepIds, count \in 1..NumNodes : SummaryCreateDeployment(d, count)
    \/ \E d \in DepIds, i \in NodeIdx : SummaryCreateNode(d, i)
    \/ \E d \in DepIds, i \in NodeIdx, status \in SummaryNodeStatuses, now \in Timestamps :
          SummaryUpdateNodeStatus(d, NodeID(d, i), status, now)

SummarySpec == Init /\ [][SummaryNext]_vars

----------------------------------------------------------------------------
(* Logs: the store's callers and GET /deployments/:id/logs.                *)

\* The entries of a deployment's nodes, as pushNodeLogs hands them to AppendLogs.
LogEntries(d) ==
    [deployment_id : {d}, node_id : {NodeID(d, i) : i \in NodeIdx}, timestamp : Timestamps]

\* Batches of up to one entry more than the buffer holds.
MaxBatch == maxLogsPerDeployment + 1
Batches(d) == UNION {[1..k -> LogEntries(d)] : k \in 0..MaxBatch}

\* The histories followed are those of up to MaxAppended entries.
MaxAppended == maxLogsPerDeployment + 2

\* A caller's AppendLogs.
StoreAppendLogs(d, batch) ==
    /\ Len(AppendedTo(d)) + Len(batch) <= MaxAppended
    /\ AppendLogs(d, batch)
    /\ UNCHANGED <<store, submit, execPc, prov, agent, hb, term, dup, cleanup, req,
                   deploymentDirs, query, gen, disk, pool>>

\* A caller's DeleteDeployment of a deployment that is there.
StoreDeleteDeployment(d) ==
    /\ d \in DOMAIN deployments
    /\ DeleteDeployment(d)
    /\ UNCHANGED <<submit, execPc, prov, agent, hb, term, dup, cleanup, req,
                   deploymentDirs, logVars, gen, disk, pool>>

\* The limit query parameter: absent, or a number.
LimitParams == {<<>>} \cup {<<n>> : n \in 0..MaxBatch}

\* getDeploymentLogs: limit is 1000 unless the parameter is there and Sscanf reads a
\* number from it; GetLogs; 404 if the deployment is not found.
getDeploymentLogs(d, nodeID, since, limitStr) ==
    /\ LET limit == IF limitStr = <<>> THEN defaultLimit ELSE limitStr[1]
       IN query' = [dep |-> d, node |-> nodeID, since |-> since, limit |-> limit,
                    code |-> IF d \in DOMAIN deployments THEN 200 ELSE 404,
                    logs |-> IF d \in DOMAIN deployments
                             THEN GetLogs(d, nodeID, since, limit) ELSE <<>>]
    /\ UNCHANGED <<store, submit, execPc, prov, agent, hb, term, dup, cleanup, req,
                   deploymentDirs, logs, appended, gen, disk, pool>>

----------------------------------------------------------------------------

\* Submission, execution and the provisioning goroutines.
Controller ==
    \/ \E d \in DepIds, p \in Providers, c \in 0..NumNodes, x \in Descriptors :
          ProcessDeploymentCreate(d, p, c, x)
    \/ ProcessDeploymentGenerateFails
    \/ ProcessDeploymentCreateNode(FreshProvisionToken)
    \/ ProcessDeploymentSpawn
    \/ ExecuteDeploymentStart
    \/ ProvisionNodesSpawn
    \/ ProvisionNodesSetRunning
    \/ \E i \in NodeIdx : ProvisionSingleNodeStart(i)
    \/ \E i \in NodeIdx : ProvisionInstanceFails(i)
    \/ \E i \in NodeIdx : ProvisionInstanceSucceeds(i)
    \/ \E i \in NodeIdx : ProvisionSingleNodeBooting(i)
    \/ \E i \in NodeIdx : ProvisionSingleNodeRegistering(i)

\* The agents' foreground requests and the handlers serving them.
AgentRun ==
    \/ \E i \in NodeIdx : RegisterNodeAuth(i)
    \/ \E i \in NodeIdx : RegisterNodeStatus(i)
    \/ \E i \in NodeIdx : UpdateNodeStatusHandler(i)
    \/ \E i \in NodeIdx : GetNodeAssets(i)
    \/ \E i \in NodeIdx : DownloadBundleFails(i)
    \/ \E i \in NodeIdx, o \in {NodeStatusCompleted, NodeStatusFailed} : MonitorSetup(i, o)

\* The agents' heartbeats.
Heartbeat ==
    \/ \E i \in NodeIdx : NodeHeartbeatFind(i)
    \/ \E i \in NodeIdx : NodeHeartbeatStatus(i)

\* DELETE /deployments/:id.
Terminate ==
    \/ \E d \in DepIds : TerminateDeploymentStart(d)
    \/ TerminateDeploymentGetNodes
    \/ TerminateDeploymentNode
    \/ TerminateDeploymentFinish
    \/ TerminateDeploymentCleanupFiles

\* A repeated POST /nodes/register.
RepeatRegister ==
    \/ \E i \in NodeIdx : RepeatRegisterAuth(i)
    \/ RepeatRegisterStatus

\* A cleanup request or sweep.
Cleanup ==
    \/ \E d \in DepIds : CleanupCheck(d)
    \/ CleanupDeploymentDelete

\* The status values callers hand to UpdateNodeStatus: the ones the orchestrator and
\* the handlers pass, and req.Status of POST /nodes/status, which is any string (the
\* agent also reports "extracting").
NodeStatusArgs ==
    {NodeStatusPending, NodeStatusProvisioning, NodeStatusBooting, NodeStatusRegistering,
     NodeStatusDownloading, NodeStatusRunning, NodeStatusCompleted, NodeStatusFailed,
     NodeStatusTerminating, NodeStatusTerminated, "extracting"}

\* The status values callers hand to UpdateDeploymentStatus.
DeploymentStatusArgs ==
    {StatusProvisioning, StatusRunning, StatusFailed, StatusTerminating, StatusTerminated}

\* Any caller's UpdateNodeStatus on a node of the store.
StoreUpdateNodeStatus(nid, status) ==
    /\ nid \in DOMAIN nodes
    /\ UpdateNodeStatus(nodes[nid].deployment_id, nid, status, <<>>)
    /\ UNCHANGED <<submit, execPc, prov, agent, hb, term, dup, cleanup, req, deploymentDirs, logVars, gen, disk, pool>>

\* Any caller's UpdateDeploymentStatus on a deployment of the store.
StoreUpdateDeploymentStatus(d, status) ==
    /\ d \in DOMAIN deployments
    /\ UpdateDeploymentStatus(d, status, <<>>)
    /\ UNCHANGED <<submit, execPc, prov, agent, hb, term, dup, cleanup, req, deploymentDirs, logVars, gen, disk, pool>>

\* Normal operation: a submission, its provisioning, its agents and their heartbeats.
Next == Controller \/ AgentRun \/ Heartbeat

Spec == Init /\ [][Next]_vars

\* Normal operation without heartbeats, with a client terminating the deployment.
TerminateNext == Controller \/ AgentRun \/ Terminate

TerminateSpec == Init /\ [][TerminateNext]_vars

\* Normal operation without heartbeats, with registration requests repeated.
RegisterNext == Controller \/ AgentRun \/ RepeatRegister

RegisterSpec == Init /\ [][RegisterNext]_vars

\* Submission, provisioning and registration, with clients sending requests to the
\* protected endpoints.
RequestNext ==
    \/ Controller
    \/ \E i \in NodeIdx : RegisterNodeAuth(i)
    \/ \E i \in NodeIdx : RegisterNodeStatus(i)
    \/ \E e \in ProtectedEndpoints, h \in Headers, b \in BOOLEAN : NodeRequestRefused(e, h, b)

RequestSpec == Init /\ [][RequestNext]_vars

\* Submission, provisioning and registration, with registered nodes (or whoever holds
\* their tokens) pushing logs.
LogNext ==
    \/ Controller
    \/ \E i \in NodeIdx : RegisterNodeAuth(i)
    \/ \E i \in NodeIdx : RegisterNodeStatus(i)
    \/ \E h \in Headers, batch \in ClientBatches : PushNodeLogs(h, batch)

LogSpec == Init /\ [][LogNext]_vars

\* The store's log buffer under its callers: a deployment is recorded, entries are
\* appended in batches, the deployment is deleted, logs are read.
LogStoreNext ==
    \/ \E d \in DepIds : ProcessDeploymentCreate(d, "local", NumNodes, "ok")
    \/ \E d \in DepIds : \E batch \in Batches(d) : StoreAppendLogs(d, batch)
    \/ \E d \in DepIds : StoreDeleteDeployment(d)
    \/ \E d \in DepIds, i \in NodeIdx, since \in {ZeroTime} \cup Timestamps,
          limitStr \in LimitParams :
          \/ getDeploymentLogs(d, NoNode, since, limitStr)
          \/ getDeploymentLogs(d, NodeID(d, i), since, limitStr)

LogStoreSpec == Init /\ [][LogStoreNext]_vars

\* Submission and provisioning with a client terminating the deployment and cleanup
\* requests or sweeps going on.
CleanupNext == Controller \/ Terminate \/ Cleanup

CleanupSpec == Init /\ [][CleanupNext]_vars

\* A full-size deployment on the local provider and its agents' foreground calls, with
\* a client terminating it and cleanup requests or sweeps deleting it under the agents.
ShutdownNext ==
    \/ \E d \in DepIds : ProcessDeploymentCreate(d, "local", NumNodes, "ok")
    \/ ProcessDeploymentCreateNode(FreshProvisionToken)
    \/ ProcessDeploymentSpawn
    \/ ExecuteDeploymentStart
    \/ ProvisionNodesSpawn
    \/ ProvisionNodesSetRunning
    \/ \E i \in NodeIdx : ProvisionSingleNodeStart(i)
    \/ \E i \in NodeIdx : ProvisionInstanceSucceeds(i)
    \/ \E i \in NodeIdx : ProvisionSingleNodeBooting(i)
    \/ \E i \in NodeIdx : ProvisionSingleNodeRegistering(i)
    \/ AgentRun
    \/ Terminate
    \/ Cleanup

ShutdownSpec == Init /\ [][ShutdownNext]_vars

\* The store under every sequence of status mutations: ProcessDeployment records the
\* deployment and its nodes, and from then on any caller's UpdateNodeStatus and
\* UpdateDeploymentStatus may come in any order.
StoreNext ==
    \/ \E d \in DepIds, p \in Providers, c \in 0..NumNodes, x \in Descriptors :
          ProcessDeploymentCreate(d, p, c, x)
    \/ ProcessDeploymentGenerateFails
    \/ ProcessDeploymentCreateNode(FreshProvisionToken)
    \/ ProcessDeploymentSpawn
    \/ \E nid \in DOMAIN nodes, st \in NodeStatusArgs : StoreUpdateNodeStatus(nid, st)
    \/ \E d \in DOMAIN deployments, st \in DeploymentStatusArgs :
          StoreUpdateDeploymentStatus(d, st)

StoreSpec == Init /\ [][StoreNext]_vars

\* The store under every draw of provision tokens: as StoreSpec, with generateID("pt")
\* yielding any value for each node.
TokenNext ==
    \/ \E d \in DepIds, p \in Providers, c \in 0..NumNodes, x \in Descriptors :
          ProcessDeploymentCreate(d, p, c, x)
    \/ ProcessDeploymentGenerateFails
    \/ \E token \in ProvisionTokens : ProcessDeploymentCreateNode(token)
    \/ ProcessDeploymentSpawn
    \/ \E nid \in DOMAIN nodes, st \in NodeStatusArgs : StoreUpdateNodeStatus(nid, st)
    \/ \E d \in DOMAIN deployments, st \in DeploymentStatusArgs :
          StoreUpdateDeploymentStatus(d, st)

TokenSpec == Init /\ [][TokenNext]_vars

----------------------------------------------------------------------------
(* Properties.                                                             *)

NodeTerminal(nid) == nid \in DOMAIN nodes /\ nodes[nid].status \in TerminalNodeStatuses

\* C1: a POST /nodes/status (updateNodeStatus calling UpdateNodeStatus) for a node
\* whose stored status is completed, failed or terminated leaves that status as it is.
C1_TerminalNodeStatusSticky ==
    [][\A i \in NodeIdx :
          (NodeTerminal(Nid(i)) /\ UpdateNodeStatusHandler(i))
             => nodes'[Nid(i)].status = nodes[Nid(i)].status]_vars

\* C2: a deployment whose status is completed, failed or terminated keeps that status
\* in every later step, whichever task or handler takes it.
C2_TerminalDeploymentNeverDemoted ==
    [][\A d \in DOMAIN deployments :
          (deployments[d].status \in TerminalDeploymentStatuses /\ d \in DOMAIN deployments')
             => deployments'[d].status = deployments[d].status]_vars

\* All the nodes the descriptor asked for are recorded and each has a terminal status.
AllNodesTerminal(d) ==
    /\ d \in DOMAIN nodesByDep
    /\ Len(nodesByDep[d]) = deployments[d].total_nodes
    /\ \A k \in 1..Len(nodesByDep[d]) : NodeTerminal(nodesByDep[d][k])

\* C3: in every reachable state, a deployment all of whose nodes have a terminal
\* status has a terminal status itself.
C3_AllNodesTerminalThenDeploymentTerminal ==
    \A d \in DOMAIN deployments :
        AllNodesTerminal(d) => deployments[d].status \in TerminalDeploymentStatuses

\* C4: the heartbeat handler's UpdateNodeStatus(running) never lands on a node whose
\* status is terminal by then: the status is the same after the handler's step.
C4_HeartbeatKeepsTerminalStatus ==
    [][\A i \in NodeIdx :
          (NodeTerminal(Nid(i)) /\ NodeHeartbeatStatus(i))
             => nodes'[Nid(i)].status = nodes[Nid(i)].status]_vars

\* C5: a heartbeat handled after the node's status became completed (the handler's
\* lookup finds the node completed) changes nothing of the store but the node's
\* metrics, and is answered {status: ok, shutdown: false}.
C5_HeartbeatAfterCompleted ==
    [][\A i \in NodeIdx :
          /\ (Nid(i) \in DOMAIN nodes /\ nodes[Nid(i)].status = NodeStatusCompleted
                /\ NodeHeartbeatFind(i))
               => /\ hb'[i].status = NodeStatusCompleted
                  /\ nodes' = [nodes EXCEPT ![Nid(i)].metrics = nodes'[Nid(i)].metrics]
                  /\ UNCHANGED <<deployments, nodesByDep>>
          /\ (hb[i].status = NodeStatusCompleted /\ NodeHeartbeatStatus(i))
               => /\ HeartbeatResponse(i) = [status |-> "ok", shutdown |-> FALSE]
                  /\ UNCHANGED store]_vars

\* C5 witness: a heartbeat handler has looked up a node that is completed, has stored
\* the metrics, and is about to decide on the status.
C5_Witness ==
    \E i \in NodeIdx :
        /\ hb[i].pc = "status"
        /\ hb[i].status = NodeStatusCompleted
        /\ nodes[Nid(i)].status = NodeStatusCompleted
        /\ nodes[Nid(i)].metrics = "metrics"

\* C6: a registration that repeats a provision token already registered with is
\* never answered 200 (it is rejected with 401).
C6_RepeatedRegistrationRejected ==
    dup.resp # "200"

\* The agent of node i has been started and has not yet reported a final status, so
\* its node was live when any TerminateDeployment ran.
AgentWorking(i) ==
    agent[i].pc \in {"register", "downloading", "assets", "extracting", "running", "exec"}

\* C7: once TerminateDeployment has run, every node that was still live (here: one
\* whose agent is still at work) has should_shutdown set, so that its next heartbeat
\* is answered shutdown = true.
C7_TerminateMarksLiveNodesForShutdown ==
    term.pc = "done" =>
        \A i \in NodeIdx :
            (AgentWorking(i) /\ Nid(i) \in DOMAIN nodes) => nodes[Nid(i)].should_shutdown

\* Every provisioning task has returned from a successful Provision, every agent has
\* registered, run its script and had its completed report answered, the execution
\* task has returned, and no heartbeat is being handled.
HappyPathOver ==
    /\ submit.pc = "done"
    /\ execPc = "done"
    /\ \A i \in NodeIdx :
          i < submit.count => (prov[i] = "done" /\ agent[i].pc = "wait" /\ hb[i].pc = "idle")

\* C8: on the happy path the deployment ends completed: when everything is over
\* (nothing but further heartbeats can follow), its status is completed.
C8_HappyPathEndsCompleted ==
    HappyPathOver => deployments[Dep].status = StatusCompleted

\* C9: for every deployment, nodes_completed + nodes_failed <= total_nodes.
C9_CountersWithinTotal ==
    \A d \in DOMAIN deployments :
        deployments[d].nodes_completed + deployments[d].nodes_failed
            <= deployments[d].total_nodes

\* C9 witness: the summary has counted every node of a deployment of two or more
\* nodes as done, some completed and some failed.
C9_Witness ==
    \E d \in DOMAIN deployments :
        /\ deployments[d].total_nodes >= 2
        /\ deployments[d].nodes_completed > 0
        /\ deployments[d].nodes_failed > 0
        /\ deployments[d].nodes_completed + deployments[d].nodes_failed
              = deployments[d].total_nodes

\* C10: every deployment whose status is completed, failed or terminated has
\* completed_at set.
C10_TerminalHasCompletedAt ==
    \A d \in DOMAIN deployments :
        deployments[d].status \in TerminalDeploymentStatuses => deployments[d].completed_at

\* C10 witness: the completion summary, not UpdateDeploymentStatus, has made a
\* deployment completed (UpdateDeploymentStatus is never called with completed).
C10_Witness ==
    \E d \in DOMAIN deployments :
        /\ deployments[d].status = StatusCompleted
        /\ deployments[d].completed_at

\* C11: for every deployment, completed_at is set if and only if the status is
\* completed, failed or terminated.
C11_CompletedAtIffTerminal ==
    \A d \in DOMAIN deployments :
        deployments[d].completed_at
            <=> deployments[d].status \in TerminalDeploymentStatuses

\* C12, as claimed: for every node, auth_token is non-empty if and only if the node's
\* status is not pending.
C12_AuthTokenIffNotPending ==
    \A nid \in DOMAIN nodes :
        (nodes[nid].auth_token # NoToken) <=> (nodes[nid].status # NodeStatusPending)

\* registerNode has stored the auth token for the agent of node i: the agent is past
\* the first store call of its registration.
AuthTokenIssued(i) ==
    /\ agent[i].pc # "off"
    /\ ~AgentAt(i, "register", "send")

\* C12, amended: for every node, auth_token is non-empty if and only if a
\* registration for the node has succeeded, whatever the node's status.
C12_AuthTokenIffRegistered ==
    \A i \in NodeIdx :
        Nid(i) \in DOMAIN nodes =>
            ((nodes[Nid(i)].auth_token # NoToken) <=> AuthTokenIssued(i))

\* C12 witness: one node has registered and holds its auth token, while another has
\* left pending (its provisioning goes on, or has failed) and holds none.
C12_Witness ==
    \E i \in NodeIdx, j \in NodeIdx :
        /\ Nid(i) \in DOMAIN nodes /\ Nid(j) \in DOMAIN nodes
        /\ nodes[Nid(i)].auth_token = AuthTokenOf(Nid(i))
        /\ nodes[Nid(j)].auth_token = NoToken
        /\ nodes[Nid(j)].status # NodeStatusPending

\* C13: any two distinct nodes in the store have different provision_token values.
C13_ProvisionTokensUnique ==
    \A n \in DOMAIN nodes, m \in DOMAIN nodes :
        n # m => nodes[n].provision_token # nodes[m].provision_token

\* C14: any two distinct nodes that both have an auth_token have different ones, and
\* FindNodeByAuthToken resolves the token of a node to that node alone.
C14_AuthTokensUnique ==
    \A n \in DOMAIN nodes :
        nodes[n].auth_token # NoToken =>
            /\ \A m \in DOMAIN nodes :
                  (m # n /\ nodes[m].auth_token # NoToken)
                     => nodes[m].auth_token # nodes[n].auth_token
            /\ FindNodeByAuthToken(nodes[n].auth_token) = {n}

\* C14 witness: two distinct nodes have registered and both hold an auth token.
C14_Witness ==
    \E n \in DOMAIN nodes, m \in DOMAIN nodes :
        /\ n # m
        /\ nodes[n].auth_token # NoToken
        /\ nodes[m].auth_token # NoToken

\* C16: a deployment leaves the store only in a step in which its status, at that
\* moment, is completed, failed or terminated.
C16_DeletedOnlyWhenTerminal ==
    [][\A d \in DOMAIN deployments :
          d \notin DOMAIN deployments'
             => deployments[d].status \in TerminalDeploymentStatuses]_vars

\* The header carries no bearer token, an empty one, or one that is no node's stored
\* auth_token.
Unauthenticated(h) ==
    \/ h.scheme # "Bearer "
    \/ h.token = NoToken
    \/ \A nid \in DOMAIN nodes : nodes[nid].auth_token # h.token

\* C15: a request to a protected endpoint whose bearer token is missing, empty or no
\* node's auth_token is answered 401 and leaves the store as it was.
C15_UnauthenticatedRejected401 ==
    [][(req' # req /\ Unauthenticated(req'.header))
          => (req'.code = 401 /\ UNCHANGED store)]_vars

\* The step in which provisionSingleNode of node i takes its error return.
ProvisionFailureStep(i) == prov[i] = "call" /\ prov'[i] = "done"

\* C17: the step in which ProvisionInstance fails for one node leaves that node failed
\* with the backend's error text, and changes no other node's status or error_message
\* and no other node's provisioning task.
C17_BackendErrorIsolated ==
    [][\A i \in NodeIdx :
          ProvisionFailureStep(i)
             => /\ nodes'[Nid(i)].status = NodeStatusFailed
                /\ nodes'[Nid(i)].error_message = BackendError
                /\ \A j \in NodeIdx \ {i} :
                      /\ prov'[j] = prov[j]
                      /\ Nid(j) \in DOMAIN nodes
                            => /\ nodes'[Nid(j)].status = nodes[Nid(j)].status
                               /\ nodes'[Nid(j)].error_message = nodes[Nid(j)].error_message]_vars

\* One node failed in provisioning with the backend's text and a peer has completed.
C17_Witness ==
    \E i \in NodeIdx, j \in NodeIdx :
        /\ i # j
        /\ Nid(i) \in DOMAIN nodes
        /\ Nid(j) \in DOMAIN nodes
        /\ prov[i] = "done"
        /\ agent[i].pc = "off"
        /\ nodes[Nid(i)].status = NodeStatusFailed
        /\ nodes[Nid(i)].error_message = BackendError
        /\ nodes[Nid(j)].status = NodeStatusCompleted

\* The run is over: the submission and the execution task have returned, every
\* provisioning task has returned, every agent that was started has had its last
\* report answered, and no heartbeat is being handled.
RunOver ==
    /\ submit.pc = "done"
    /\ execPc = "done"
    /\ \A i \in NodeIdx :
          i < submit.count
             => /\ prov[i] = "done"
                /\ agent[i].pc \in {"off", "wait", "exited"}
                /\ hb[i].pc \in {"off", "idle", "cancelled"}

\* Every node of the deployment has ended completed or failed, and at least one failed.
EndedWithFailure ==
    /\ RunOver
    /\ Dep \in DOMAIN deployments
    /\ \A i \in NodeIdx :
          i < submit.count
             => nodes[Nid(i)].status \in {NodeStatusCompleted, NodeStatusFailed}
    /\ \E i \in NodeIdx :
          i < submit.count /\ nodes[Nid(i)].status = NodeStatusFailed

\* C18: when the run is over with every node completed or failed and at least one
\* failed, the deployment's status is failed.
C18_MixedRunEndsFailed ==
    EndedWithFailure => deployments[Dep].status = StatusFailed

\* C19: every node's stored status is one of the ten declared values.
C19_NodeStatusIsDeclared ==
    \A nid \in DOMAIN nodes : nodes[nid].status \in NodeStatuses

\* The node the next round of TerminateDeployment's loop is about.
TerminateLoopNode == term.nodes[term.i + 1].node_id

\* C20: a round of TerminateDeployment's loop that comes to a node whose status is
\* completed or failed leaves that status as it is.
C20_TerminateKeepsCompletedAndFailed ==
    [][(/\ term.pc = "loop"
        /\ term.i < Len(term.nodes)
        /\ term'.i = term.i + 1
        /\ TerminateLoopNode \in DOMAIN nodes
        /\ nodes[TerminateLoopNode].status \in {NodeStatusCompleted, NodeStatusFailed})
          => nodes'[TerminateLoopNode].status = nodes[TerminateLoopNode].status]_vars

\* executeDeployment has returned and the descriptor's provider is one createProvider
\* does not resolve.
ProviderUnresolved ==
    /\ submit.pc = "done"
    /\ execPc = "done"
    /\ createProviderFails(submit.provider)

\* C21: once executeDeployment has failed to resolve the provider, the deployment is
\* failed with the error recorded, no node's provisioning task or agent was ever
\* started, and this stays so (the deployment is never running afterwards).
C21_UnresolvedProviderFails ==
    ProviderUnresolved
       => /\ deployments[Dep].status = StatusFailed
          /\ deployments[Dep].error_message = ProviderError
          /\ \A i \in NodeIdx : prov[i] = "off" /\ agent[i].pc = "off"
          /\ \A nid \in DOMAIN nodes : nodes[nid].status = NodeStatusPending

\* A deployment of two nodes whose provider did not resolve.
C21_Witness ==
    /\ ProviderUnresolved
    /\ submit.count = NumNodes
    /\ deployments[Dep].status = StatusFailed

\* C22: after ProcessDeployment has returned an error, the working directory it made
\* is gone and the store holds no deployment and no node of the id it generated.
C22_RejectedSubmissionLeavesNothing ==
    submit.pc = "rejected"
       => /\ Dep \notin deploymentDirs
          /\ Dep \notin DOMAIN deployments
          /\ \A nid \in DOMAIN nodes : nodes[nid].deployment_id # Dep

\* C23: after a step that deletes a deployment, the store holds no node and no log
\* entry of that deployment.
C23_DeleteRemovesNodesAndLogs ==
    [][\A d \in DOMAIN deployments :
          d \notin DOMAIN deployments'
             => /\ \A nid \in DOMAIN nodes' : nodes'[nid].deployment_id # d
                /\ d \notin DOMAIN nodesByDep'
                /\ \A x \in DOMAIN logs' :
                      \A k \in 1..Len(logs'[x]) :
                         x # d /\ logs'[x][k].deployment_id # d]_vars

\* C24: a deployment's buffer never holds more than maxLogsPerDeployment entries, and
\* it is the last maxLogsPerDeployment entries of everything appended for the
\* deployment, in append order.
C24_BufferIsMostRecent ==
    \A d \in DOMAIN logs :
        /\ Len(logs[d]) <= maxLogsPerDeployment
        /\ logs[d] = LastN(AppendedTo(d), maxLogsPerDeployment)

\* More has been appended than the buffer holds, and what was dropped differs from
\* what was kept.
C24_Witness ==
    \E d \in DOMAIN logs :
        /\ Len(AppendedTo(d)) = MaxAppended
        /\ Len(logs[d]) = maxLogsPerDeployment
        /\ logs[d] # SubSeq(AppendedTo(d), 1, maxLogsPerDeployment)

\* The entries of the buffer a query q asks for: those of the node, if one is named,
\* that are not older than since, if it is given.
Requested(q) ==
    SelectSeq(LogsOf(q.dep),
              LAMBDA e : /\ (q.node = NoNode \/ e.node_id = q.node)
                         /\ (q.since = ZeroTime \/ e.timestamp >= q.since))

\* C25: a log query answers with the requested entries in buffer order, cut to the
\* limit most recent ones, the limit being defaultLimit when the caller gave 0.
C25_GetLogsFilteredAndLimited ==
    [][(query' # query /\ query'.code = 200)
          => query'.logs = LastN(Requested(query'),
                                 IF query'.limit = 0 THEN defaultLimit ELSE query'.limit)]_vars

\* C25, amended: a log query answers with the requested entries in buffer order, cut
\* to the limit most recent ones when limit > 0 and not cut at all when limit is 0.
C25_GetLogsLimitZeroUncut ==
    [][(query' # query /\ query'.code = 200)
          => query'.logs = IF query'.limit = 0
                           THEN Requested(query')
                           ELSE LastN(Requested(query'), query'.limit)]_vars

\* A query for one node's entries since a given time, cut by its limit to the most
\* recent ones, which are not the oldest ones.
C25_Witness ==
    /\ query.code = 200
    /\ query.node # NoNode
    /\ query.since # ZeroTime
    /\ query.limit > 0
    /\ Len(query.logs) = query.limit
    /\ Len(Requested(query)) > query.limit
    /\ query.logs # SubSeq(Requested(query), 1, query.limit)

\* C26: every entry a POST /nodes/logs adds to a buffer carries the id of the
\* deployment whose buffer it is and the id of the node that holds the presented
\* bearer token, a node of that deployment.
C26_LogsStampedFromToken ==
    [][\A d \in DOMAIN appended' :
          \A k \in (Len(AppendedTo(d)) + 1)..Len(appended'[d]) :
             /\ appended'[d][k].deployment_id = d
             /\ appended'[d][k].node_id \in FindNodeByAuthToken(req'.header.token)
             /\ nodes[appended'[d][k].node_id].deployment_id = d
             /\ logs'[d][Len(logs'[d]) - (Len(appended'[d]) - k)] = appended'[d][k]]_vars

\* A buffer holds entries of both nodes of the deployment.
C26_Witness ==
    \E d \in DOMAIN logs :
        \E k1 \in 1..Len(logs[d]), k2 \in 1..Len(logs[d]) :
            logs[d][k1].node_id # logs[d][k2].node_id

\* The first call has returned.
FirstReturned == gen.pc = "once" \/ gen.call = 2

\* The elements of list at the positions i, i+N, i+2N, ... below its length, in
\* that order (positions counted from 0).
StrideShare(list, i, N) ==
    [k \in 1..Cardinality({p \in 0..(Len(list) - 1) : p % N = i}) |->
        list[i + (k - 1) * N + 1]]

\* In the configs returned, the list called name is stride-partitioned: each node has
\* its stride share under the key, or no such key if the share is empty, and every
\* element is with exactly one node.
StridePartitioned(cfg, configs, name) ==
    LET list == cfg.distributed_lists[name]
        has(i, p) == /\ name \in DOMAIN configs[i + 1]
                     /\ configs[i + 1][name].kind = "list"
                     /\ \E k \in 1..Len(configs[i + 1][name].v) :
                            configs[i + 1][name].v[k] = list[p]
    IN /\ \A i \in 0..(cfg.count - 1) :
            IF StrideShare(list, i, cfg.count) = <<>>
            THEN name \notin DOMAIN configs[i + 1]
            ELSE /\ name \in DOMAIN configs[i + 1]
                 /\ configs[i + 1][name] = List(StrideShare(list, i, cfg.count))
       /\ \A p \in 1..Len(list) :
            Cardinality({i \in 0..(cfg.count - 1) : has(i, p)}) = 1

C28_GenerateDeterministic ==
    gen.pc = "twice" => gen.first = gen.second

\* Every mutation so far is in state.json: the file is the serialisation of the maps.
Persisted ==
    /\ ~disk.stopped /\ ~disk.torn
    /\ IF disk.exists THEN StateFile(disk) = Serialised(deployments, nodes)
                      ELSE deployments = <<>> /\ nodes = <<>>

\* C29: when the disk store is loaded again after a restart, the deployments and the
\* nodes are those of before with every field as it was, and GetNodesByDeployment
\* answers for every deployment, one with no nodes too, exactly as it did before.
C29_RestartKeepsStore ==
    [][(NewDiskStore /\ Persisted) =>
          /\ deployments' = deployments
          /\ nodes' = nodes
          /\ \A d \in DOMAIN deployments :
                DiskStore_GetNodesByDeployment(nodesByDep', nodes', d)
                    = DiskStore_GetNodesByDeployment(nodesByDep, nodes, d)]_vars

\* A call Agent.Run of node i makes with its auth token after registration (a status
\* update, the asset download) is answered 401: no node carries the token.
Answered401(i) ==
    /\ FindNodeByAuthToken(AuthTokenOf(Nid(i))) = {}
    /\ UpdateNodeStatusHandler(i) \/ GetNodeAssets(i)

\* The agent of node i has cancelled its context, or Agent.Run has returned or is on
\* its way to return with an error (cleanup cancels the context).
ShuttingDown(i) ==
    \/ hb[i].pc = "cancelled"
    \/ agent[i].pc = "exited"
    \/ agent[i].pc = "final" /\ agent[i].outcome = NodeStatusFailed

\* C30: when a call the agent makes with its auth token after registration is answered
\* 401, the agent initiates shutdown.
C30_ShutdownOn401 ==
    [][\A i \in NodeIdx : Answered401(i) => ShuttingDown(i)']_vars

\* C31: the pool never holds more than MaxInstances instances.
C31_PoolWithinMaxInstances == PoolSize <= MaxInstances

\* An Acquire for the type that a pool at MaxInstances with no available instance of
\* the type answers.
AcquireAtCapacity(type) ==
    /\ Available(type) = {}
    /\ PoolSize >= MaxInstances
    /\ \E ok \in BOOLEAN : Acquire(type, ok)

\* C32 (as stated): the Acquire that follows Release(id), with the released instance
\* still idle in the pool and a provider that works, returns the released instance, in
\* use and without a provider call, if and only if the type asked for is the released
\* instance's; an Acquire for another type provisions a new instance and leaves the
\* released one idle.
C32_NextAcquireReusesReleased ==
    [][\A type \in InstanceTypes :
          (/\ pool.last.op = "release" /\ pool.last.err = ""
           /\ pool.last.id \in DOMAIN pool.instances
           /\ ~pool.instances[pool.last.id].in_use
           /\ Acquire(type, TRUE))
          => LET id == pool.last.id
             IN IF pool.instances[id].type = type
                THEN /\ pool'.last = Returned("acquire", id, "", FALSE)
                     /\ pool'.instances[id].in_use
                ELSE /\ pool'.last.err = "" /\ pool'.last.provisioned
                     /\ pool'.last.id \notin DOMAIN pool.instances
                     /\ pool'.instances[id] = pool.instances[id]]_vars

\* What Acquire(type) does, by the instances that are idle, not reserved and of the type.
AcquireByType(type) ==
    LET idle == {id \in DOMAIN pool.instances :
                    /\ ~pool.instances[id].in_use /\ ~pool.instances[id].reserved
                    /\ pool.instances[id].status = "running"
                    /\ pool.instances[id].type = type}
    IN IF idle # {}
       THEN /\ pool'.last.op = "acquire" /\ pool'.last.err = "" /\ ~pool'.last.provisioned
            /\ pool'.last.id \in idle
            /\ pool'.instances = [pool.instances EXCEPT ![pool'.last.id].in_use = TRUE]
       ELSE IF PoolSize >= MaxInstances
       THEN /\ pool'.last = Returned("acquire", NoInstance, "maximum capacity", FALSE)
            /\ pool'.instances = pool.instances
       ELSE /\ pool'.last.provisioned
            /\ \/ /\ pool'.last.err # "" /\ pool'.instances = pool.instances
               \/ /\ pool'.last.err = ""
                  /\ pool'.last.id \notin DOMAIN pool.instances
                  /\ DOMAIN pool'.instances = DOMAIN pool.instances \cup {pool'.last.id}
                  /\ pool'.instances[pool'.last.id] = PooledInstance(type, TRUE, FALSE)
                  /\ \A id \in DOMAIN pool.instances :
                        pool'.instances[id] = pool.instances[id]

\* C32 (amended): an Acquire returns an instance of the pool, in use and without a
\* provider call, if and only if the pool has an idle, unreserved, running instance of
\* the type asked for, and then it returns one of these; otherwise it calls the provider for a
\* new instance if the pool is below MaxInstances, fails if it is not, and in both
\* cases leaves the instances of the pool as they are.
C32_AcquireReusesByType ==
    [][\A type \in InstanceTypes :
          (\E ok \in BOOLEAN : Acquire(type, ok)) => AcquireByType(type)]_vars

\* An instance was released and the next call, an Acquire for its type, returned it
\* without a provider call, while an idle instance of the other type stayed idle.
C32_Witness ==
    /\ pool.last.op = "acquire" /\ pool.last.err = "" /\ ~pool.last.provisioned
    /\ pool.last.id \in pool.held
    /\ \E other \in DOMAIN pool.instances :
          /\ ~pool.instances[other].in_use
          /\ ~pool.instances[other].reserved
          /\ pool.instances[other].type # pool.instances[pool.last.id].type

\* C40: while an instance is held (an Acquire returned it and no Release or Terminate
\* of it came since), no Acquire returns it and scheduleCleanup does not remove it.
C40_HeldExclusively ==
    [][\A id \in pool.held :
          /\ (\E type \in InstanceTypes, ok \in BOOLEAN : Acquire(type, ok))
                => pool'.last.id # id
          /\ (\E c \in pool.cleanups, elapsed \in BOOLEAN : scheduleCleanup(c, elapsed))
                => id \in DOMAIN pool'.instances]_vars

\* An instance is held while another Acquire has just been answered and a
\* scheduleCleanup goroutine for the held instance is still to wake up.
C40_Witness ==
    /\ pool.last.op = "acquire"
    /\ \E id \in pool.held :
          /\ id # pool.last.id
          /\ \E c \in pool.cleanups : c.id = id

\* C35: after a mutation of the disk store that returned nil, state.json is the
\* serialisation of the deployments and nodes in memory; and when the process has
\* stopped inside save, state.json is whole and holds what it held before the call or
\* the serialisation of the state the call made.
C35_SaveAtomic ==
    /\ [](disk.ret = "nil"
            => disk.exists /\ ~disk.torn
               /\ StateFile(disk) = Serialised(deployments, nodes))
    /\ [][(~disk.stopped /\ disk'.stopped)
            => /\ ~disk'.torn
               /\ \/ /\ disk'.exists = disk.exists
                     /\ StateFile(disk') = StateFile(disk)
                  \/ /\ disk'.exists
                     /\ StateFile(disk') = Serialised(deployments', nodes')]_vars

\* The process stopped between the write of state.json.tmp and the rename, in a call
\* that was changing a node of a store that had been saved before.
C35_Witness ==
    /\ disk.stopped /\ disk.tmp = "whole" /\ disk.exists
    /\ StateFile(disk) # Serialised(deployments, nodes)
    /\ nodes # <<>>

\* C39: a mutation of the disk store that returns the error of save leaves the
\* deployments and nodes in memory as they were before the call.
C39_FailedSaveKeepsMemory ==
    [][disk'.ret = "save failed" => UNCHANGED store]_vars

\* C33: a CreateNode for a node id that is in the store, or for a deployment that is
\* not, changes nothing in the store, and every node of the store names a deployment
\* of the store.
C33_CreateNodeNeedsDeployment ==
    /\ [](\A nid \in DOMAIN nodes : nodes[nid].deployment_id \in DOMAIN deployments)
    /\ [][\A d \in DepIds, i \in NodeIdx :
            (/\ \E o \in SaveOutcomes : DiskStore_CreateNode(d, i, o)
             /\ (NodeID(d, i) \in DOMAIN nodes \/ d \notin DOMAIN deployments))
            => UNCHANGED store]_vars

\* What the caller of ProcessDeployment reads through the *Deployment it got back: the
\* pointer is the one CreateDeployment put into s.deployments, so it shows the record
\* of the store.
ProcessDeploymentReturned == deployments[submit.dep]

\* C36: the deployment that Submit returned shows status pending, whatever has been
\* done to the stored deployment since.
C36_SubmitReturnsSnapshot ==
    (submit.pc = "done" /\ submit.dep \in DOMAIN deployments)
        => ProcessDeploymentReturned.status = StatusPending

\* The place of a node status in the lifecycle order of the node state machine.
LifecycleRank(status) ==
    CASE status = NodeStatusPending      -> 0
      [] status = NodeStatusProvisioning -> 1
      [] status = NodeStatusBooting      -> 2
      [] status = NodeStatusRegistering  -> 3
      [] status = NodeStatusDownloading  -> 4
      [] status = NodeStatusRunning      -> 5
      [] status \in {NodeStatusCompleted, NodeStatusFailed, NodeStatusTerminated} -> 6
      [] OTHER -> -1

\* C37: no step takes a node from a status of the lifecycle order to an earlier one.
C37_NodeStatusNeverBackwards ==
    [][\A nid \in DOMAIN nodes \cap DOMAIN nodes' :
          (LifecycleRank(nodes[nid].status) >= 0 /\ LifecycleRank(nodes'[nid].status) >= 0)
          => LifecycleRank(nodes'[nid].status) >= LifecycleRank(nodes[nid].status)]_vars

\* C38: a deployment whose status is completed has nodes_completed = total_nodes,
\* nodes_failed = 0, and all of its nodes in status completed.
C38_CompletedMeansAllCompleted ==
    \A d \in DOMAIN deployments :
        deployments[d].status = StatusCompleted
        => /\ deployments[d].nodes_completed = deployments[d].total_nodes
           /\ deployments[d].nodes_failed = 0
           /\ \A nid \in DOMAIN nodes :
                 nodes[nid].deployment_id = d => nodes[nid].status = NodeStatusCompleted

\* The deployment record of d after the summary has run at t1 and again at t2.
SummaryTwice(d, t1, t2) ==
    checkDeploymentCompletionAt(
        checkDeploymentCompletionAt(deployments, nodes, nodesByDep, d, t1),
        nodes, nodesByDep, d, t2)[d]

\* C34: the summary run a second time, with no node change since the first run, leaves
\* the deployment record (status, counters, completed_at) as the first run left it.
C34_SummaryIdempotent ==
    \A d \in DOMAIN deployments : \A t1 \in Now : \A t2 \in {t \in Timestamps : t >= t1} :
        SummaryTwice(d, t1, t2)
            = checkDeploymentCompletionAt(deployments, nodes, nodesByDep, d, t1)[d]

====
